---- MODULE Spec2Model ----
(***************************************************************************)
(* Model of the multi-modal route synthesis of the carbon emissions        *)
(* calculator (backend/app/services/route_service.py and                   *)
(* emission_service.py).                                                   *)
(*                                                                         *)
(* Numbers.  Python floats are modelled by exact fixed-point integers:     *)
(*   distance  : metres            (1 km   = KmUnit   units)               *)
(*   duration  : 1/7200000 hour    (1 hour = HourUnit units)               *)
(*   emission  : 1/10000 kg CO2    (1 kg   = KgUnit   units)               *)
(*   weight    : kilograms                                                 *)
(* round(x, n) is round-half-to-even on the exact value.                   *)
(*                                                                         *)
(* Geography.  All coordinates lie on one meridian; a coordinate is its    *)
(* arc position in metres, a multiple of 10 m.  On a meridian the          *)
(* haversine distance is the absolute difference of the arc positions and  *)
(* the great-circle interpolation is linear in the arc position.           *)
(***************************************************************************)
EXTENDS Integers, Sequences, FiniteSets, TLC

KmUnit == 1000
HourUnit == 3600 * 2000
KgUnit == 10000

\* Python's None for optional records (hubs, provider answers, routes).
None == [none |-> TRUE]

\* not_viable_reason = None; every reason string is a non-empty sequence.
NoReason == << >>

Abs(x) == IF x < 0 THEN -x ELSE x

\* round() of Python: x rounded to the nearest multiple of q, ties to the
\* even multiple.
RoundHalfEven(x, q) ==
    LET f == x \div q
        r == x % q
    IN  IF 2 * r < q THEN f * q
        ELSE IF 2 * r > q THEN (f + 1) * q
        ELSE IF f % 2 = 0 THEN f * q ELSE (f + 1) * q

\* round-half-even of (a * b) / d as an integer, computed without forming
\* a * b (a = (a \div d) * d + a % d).
MulDivRound(a, b, d) ==
    LET n == (a \div d) * b
        x == (a % d) * b
        base == n + (x \div d)
        rem == x % d
    IN  IF 2 * rem < d THEN base
        ELSE IF 2 * rem > d THEN base + 1
        ELSE IF base % 2 = 0 THEN base ELSE base + 1

\* round(x, 2) on kilometres, round(x, 2) on hours, round(x, 4) on kg.
RoundKm2(d) == RoundHalfEven(d, KmUnit \div 100)
RoundHours2(t) == RoundHalfEven(t, HourUnit \div 100)
RoundKg4(e) == RoundHalfEven(e, KgUnit \div 10000)

(***************************************************************************)
(* Transport modes, speed table and emission factors.                      *)
(***************************************************************************)
TransportMode == {"land", "sea", "air"}

\* Process-wide data of the module-level RouteService and its
\* EmissionService: class attributes and the factors object, shared by all
\* calls.
VARIABLES
    known_airports,    \* RouteService.KNOWN_AIRPORTS
    known_ports,       \* RouteService.KNOWN_PORTS
    average_speeds,    \* RouteService.AVERAGE_SPEEDS
    emission_factors   \* EmissionService.factors

shared == <<known_airports, known_ports, average_speeds, emission_factors>>

\* km/h
AVERAGE_SPEEDS == [m \in TransportMode |->
    CASE m = "land" -> 60 [] m = "sea" -> 30 [] m = "air" -> 800]

\* Mutant of MAX_AIRPORT_DISTANCE: the inland radius of the ports.
MAX_AIRPORT_DISTANCE_inland == 1500 * KmUnit

MAX_AIRPORT_DISTANCE == 200 * KmUnit
MAX_PORT_DISTANCE_NEARBY == 200 * KmUnit
MAX_PORT_DISTANCE_INLAND == 1500 * KmUnit
MIN_FLIGHT_DISTANCE == 200 * KmUnit

\* kg CO2 per tonne-km, in thousandths (0.062, 0.016, 0.602).
EmissionFactors == [m \in TransportMode |->
    CASE m = "land" -> 62 [] m = "sea" -> 16 [] m = "air" -> 602]

get_factor(mode) == emission_factors[mode]

\* distance * 1.3 (road factor, shipping-lane factor); exact on the 10 m grid.
Times13(d) == (d * 13) \div 10

\* distance / AVERAGE_SPEEDS[mode], in duration units.
TravelTime(d, mode) == d * (HourUnit \div (KmUnit * average_speeds[mode]))

(***************************************************************************)
(* EmissionService.calculate_emission.  The result is either the           *)
(* EmissionResult or the ValueError raised for a negative argument.        *)
(***************************************************************************)
\* Mutant of calculate_emission: a negative weight is not rejected.
calculate_emission_without_weight_check(distance_km, weight_kg, transport_mode) ==
    IF distance_km < 0 THEN [raised |-> "ValueError", message |-> "Distance cannot be negative"]
    ELSE [raised |-> "no",
          transport_mode |-> transport_mode,
          distance_km |-> RoundKm2(distance_km),
          weight_kg |-> weight_kg,
          emission_kg_co2 |->
              RoundKg4(MulDivRound(distance_km, weight_kg * get_factor(transport_mode),
                                   100000)),
          emission_factor_used |-> get_factor(transport_mode)]

calculate_emission(distance_km, weight_kg, transport_mode) ==
    IF distance_km < 0 THEN [raised |-> "ValueError", message |-> "Distance cannot be negative"]
    ELSE IF weight_kg < 0 THEN [raised |-> "ValueError", message |-> "Weight cannot be negative"]
    ELSE [raised |-> "no",
          transport_mode |-> transport_mode,
          distance_km |-> RoundKm2(distance_km),
          weight_kg |-> weight_kg,
          emission_kg_co2 |->
              RoundKg4(MulDivRound(distance_km, weight_kg * get_factor(transport_mode),
                                   100000)),
          emission_factor_used |-> get_factor(transport_mode)]

(***************************************************************************)
(* Geodesy.                                                                *)
(***************************************************************************)
haversine_distance(origin, destination) == Abs(destination - origin)

\* Mutant of interpolate_great_circle: the loop runs over range(num_points).
interpolate_great_circle_without_last_point(origin, destination, num_points) ==
    LET d == Abs(destination - origin)
    IN  [i \in 1..num_points |->
            IF d = 0 THEN origin
            ELSE origin + (((destination - origin) * (i - 1)) \div num_points)]

\* num_points + 1 points from origin to destination.
interpolate_great_circle(origin, destination, num_points) ==
    LET d == Abs(destination - origin)
    IN  [i \in 1..(num_points + 1) |->
            IF d = 0 THEN origin
            ELSE origin + (((destination - origin) * (i - 1)) \div num_points)]

(***************************************************************************)
(* The modelled world: request inputs, curated hub tables, and what the    *)
(* external Mapbox services may answer.  A name is a sequence of words; a  *)
(* comma is a word of its own.                                             *)
(***************************************************************************)
\* Places a request may name: coordinate (metres of arc) and place name, the
\* name already split at its commas ("Delta, India").
Locations == {
    [coordinates |-> 40010, name |-> <<"Alpha", " Aland">>],
    [coordinates |-> 190000, name |-> <<"Beta">>],
    [coordinates |-> 1000000, name |-> <<"Gamma">>],
    [coordinates |-> 1050000, name |-> <<"Delta", " India">>],
    [coordinates |-> 2500000, name |-> <<"Remote">>],
    [coordinates |-> 1240000, name |-> <<"Faraway", " India">>] }

\* weight_kg values a caller may pass.
Weights == {-1, 0, 1}

\* Longest result list the geocoder returns in the model (the code asks for
\* at most 5).
MaxResults == 2

\* Insertion order of the dict is the order of the sequence.
KNOWN_AIRPORTS == <<
    [coordinates |-> 0, name |-> <<"Alpha", "International", "Airport">>, city |-> <<"Alpha">>],
    [coordinates |-> 200000, name |-> <<"Beta", "Airport">>, city |-> <<"Beta">>],
    [coordinates |-> 900000, name |-> <<"Gamma", "Airport">>, city |-> <<"Gamma">>] >>

KNOWN_PORTS == <<
    [coordinates |-> 0, name |-> <<"Port", "of", "Alpha">>, city |-> <<"Alpha">>] >>

\* Features the geocoding service may return for any query.
GeoFeatures == {
    [name |-> <<"Delta", "International", "Airport">>,
     full_name |-> <<"Delta", "International", "Airport", ",", "Delta">>,
     coordinates |-> 1100000],
    [name |-> <<"Epsilon", "Airport">>,
     full_name |-> <<"Epsilon", "Airport", ",", "Epsilon">>,
     coordinates |-> 1200000],
    [name |-> <<"Zeta", "Airport">>,
     full_name |-> <<"Zeta", "Airport", ",", "Zeta">>,
     coordinates |-> 1260000],
    [name |-> <<"Airport", "Road">>,
     full_name |-> <<"Airport", "Road", ",", "Delta", "International", "Airport">>,
     coordinates |-> 1050000],
    [name |-> <<"Port", "of", "Delta">>,
     full_name |-> <<"Port", "of", "Delta", ",", "Delta">>,
     coordinates |-> 1040000],
    [name |-> <<"Epsilon", "Harbour">>,
     full_name |-> <<"Epsilon", "Harbour", ",", "Epsilon">>,
     coordinates |-> 2380000],
    [name |-> <<"Port", "Road">>,
     full_name |-> <<"Port", "Road", ",", "Delta", "Seaport">>,
     coordinates |-> 1050000] }

\* Features a port search may return: the hubs of the kind asked for, the
\* road named after one, and one hub of the other kind.
PortSearchFeatures ==
    {f \in GeoFeatures : f.name \in {<<"Port", "of", "Delta">>,
                                     <<"Epsilon", "Harbour">>, <<"Port", "Road">>,
                                     <<"Delta", "International", "Airport">>}}

\* What one HTTP exchange with the geocoding service can produce, the
\* features of a JSON answer taken from found.
GeocodeResponses(found) ==
    {[kind |-> "request_error"], [kind |-> "status", status_code |-> 500],
     [kind |-> "invalid_json"]}
    \cup {[kind |-> "json", features |-> fs] :
            fs \in UNION {[1..n -> found] : n \in 0..MaxResults}}

\* Routes the directions service may return: distance in metres, duration in
\* seconds, geometry as [lon, lat] points (here: the two end points).
RoadRoutes(origin, destination) ==
    {[distance |-> 1165000, duration |-> 50400, geometry |-> <<origin, destination>>]}

\* What one HTTP exchange with the directions service can produce.
RoadResponses(origin, destination) ==
    {[kind |-> "request_error"], [kind |-> "status", status_code |-> 500],
     [kind |-> "invalid_json"],
     [kind |-> "json", code |-> "NoRoute", routes |-> << >>],
     [kind |-> "json", code |-> "Ok", routes |-> << >>]}
    \cup {[kind |-> "json", code |-> "Ok", routes |-> <<r>>] :
            r \in RoadRoutes(origin, destination)}

\* The settings object: core/config.py declares no mapbox_access_token, so
\* reading it raises AttributeError; a Settings class that declares the field
\* holds an empty (unconfigured) or a non-empty token.
SettingsValues ==
    {[fields |-> {}, mapbox_access_token |-> ""],
     [fields |-> {"mapbox_access_token"}, mapbox_access_token |-> ""],
     [fields |-> {"mapbox_access_token"}, mapbox_access_token |-> "pk.token"]}

(***************************************************************************)
(* RouteService._get_road_route: [raised, issued, value].  value is the    *)
(* road route or None; issued tells whether an HTTP call was made.         *)
(***************************************************************************)
get_road_route(cfg, response) ==
    IF "mapbox_access_token" \notin cfg.fields
    THEN [raised |-> "AttributeError", issued |-> FALSE, value |-> None]
    ELSE IF cfg.mapbox_access_token = ""
    THEN [raised |-> "no", issued |-> FALSE, value |-> None]
    ELSE IF response.kind \in {"request_error", "status"}
    THEN [raised |-> "no", issued |-> TRUE, value |-> None]
    ELSE IF response.kind = "invalid_json"
    THEN [raised |-> "JSONDecodeError", issued |-> TRUE, value |-> None]
    ELSE IF response.code # "Ok" \/ response.routes = << >>
    THEN [raised |-> "no", issued |-> TRUE, value |-> None]
    ELSE LET route == response.routes[1]
         IN  [raised |-> "no", issued |-> TRUE,
              value |-> [distance_km |-> route.distance,
                         duration_hours |-> route.duration * (HourUnit \div 3600),
                         geometry |-> route.geometry]]

(***************************************************************************)
(* Route records.                                                          *)
(***************************************************************************)
RouteSegment(mode, from_name, from_coordinates, to_name, to_coordinates, distance_km, duration_hours, emission_kg_co2, geometry) ==
    [mode |-> mode, from_name |-> from_name, from_coordinates |-> from_coordinates,
     to_name |-> to_name, to_coordinates |-> to_coordinates,
     distance_km |-> distance_km, duration_hours |-> duration_hours,
     emission_kg_co2 |-> emission_kg_co2, geometry |-> geometry]

MultiModalRoute(segments, total_distance_km, total_duration_hours, total_emission_kg_co2, transport_mode, is_viable, waypoints, not_viable_reason) ==
    [segments |-> segments, total_distance_km |-> total_distance_km,
     total_duration_hours |-> total_duration_hours,
     total_emission_kg_co2 |-> total_emission_kg_co2,
     transport_mode |-> transport_mode, is_viable |-> is_viable,
     waypoints |-> waypoints, not_viable_reason |-> not_viable_reason]

\* Mutant of RoadLeg: the road factor is applied to the provider's distance
\* as well.
RoadLeg_factor_on_provider(road, fallback_distance, from_coordinates, to_coordinates, num_points) ==
    IF road # None
    THEN [distance |-> Times13(road.distance_km), duration |-> road.duration_hours,
          geometry |-> road.geometry]
    ELSE [distance |-> fallback_distance,
          duration |-> TravelTime(fallback_distance, "land"),
          geometry |-> interpolate_great_circle(from_coordinates, to_coordinates,
                                                num_points)]

\* A road leg: the provider's route, or the fallback from the great-circle
\* distance (fallback_distance is already multiplied by 1.3).
RoadLeg(road, fallback_distance, from_coordinates, to_coordinates, num_points) ==
    IF road # None
    THEN [distance |-> road.distance_km, duration |-> road.duration_hours,
          geometry |-> road.geometry]
    ELSE [distance |-> fallback_distance,
          duration |-> TravelTime(fallback_distance, "land"),
          geometry |-> interpolate_great_circle(from_coordinates, to_coordinates,
                                                num_points)]

\* Mutant of compute_land_route: the land route counts as viable only when
\* the road provider returned a route.
compute_land_route_viable_with_road(origin, destination, weight_kg, road) ==
    LET leg == RoadLeg(road, Times13(haversine_distance(origin, destination)),
                       origin, destination, 20)
        emission == calculate_emission(leg.distance, weight_kg, "land")
    IN  IF emission.raised # "no" THEN [raised |-> emission.raised, route |-> None]
        ELSE [raised |-> "no",
              route |-> MultiModalRoute(
                  << RouteSegment("land", <<"Origin">>, origin, <<"Destination">>,
                                  destination, RoundKm2(leg.distance),
                                  RoundHours2(leg.duration), emission.emission_kg_co2,
                                  leg.geometry) >>,
                  RoundKm2(leg.distance), RoundHours2(leg.duration),
                  emission.emission_kg_co2, "land", road # None, << >>, NoReason)]

\* RouteService._compute_land_route after the road-route call returned road.
\* The result is the route, or the error calculate_emission raised.
compute_land_route(origin, destination, weight_kg, road) ==
    LET leg == RoadLeg(road, Times13(haversine_distance(origin, destination)),
                       origin, destination, 20)
        emission == calculate_emission(leg.distance, weight_kg, "land")
    IN  IF emission.raised # "no" THEN [raised |-> emission.raised, route |-> None]
        ELSE [raised |-> "no",
              route |-> MultiModalRoute(
                  << RouteSegment("land", <<"Origin">>, origin, <<"Destination">>,
                                  destination, RoundKm2(leg.distance),
                                  RoundHours2(leg.duration), emission.emission_kg_co2,
                                  leg.geometry) >>,
                  RoundKm2(leg.distance), RoundHours2(leg.duration),
                  emission.emission_kg_co2, "land", TRUE, << >>, NoReason)]

(***************************************************************************)
(* Name classification.  str.lower() is a table over the vocabulary of the *)
(* model; a regular expression is matched on the word sequence.            *)
(***************************************************************************)
Lower(w) ==
    CASE w = "Alpha" -> "alpha" [] w = "Beta" -> "beta" [] w = "Gamma" -> "gamma"
      [] w = "Delta" -> "delta" [] w = "Epsilon" -> "epsilon"
      [] w = "International" -> "international" [] w = "Airport" -> "airport"
      [] w = "Road" -> "road" [] w = "Port" -> "port" [] w = "Harbour" -> "harbour"
      [] w = "Seaport" -> "seaport" [] OTHER -> w

LowerAll(name) == [i \in 1..Len(name) |-> Lower(name[i])]

\* Some word in A is directly followed (white space only) by a word in B.
HasPair(words, A, B) ==
    \E i \in 1..(Len(words) - 1) : words[i] \in A /\ words[i + 1] \in B

HasWord(words, A) == \E i \in 1..Len(words) : words[i] \in A

EndsIn(words, A) == Len(words) > 0 /\ words[Len(words)] \in A

\* Words of the vocabulary ending in "airport" / "port" (the exclusion
\* patterns are unanchored), and words starting with an excluded follower.
EndsWithAirport == {"airport"}
EndsWithPort == {"port", "airport", "seaport"}
AirportExcludedNext == {"road"}
PortExcludedNext == {"road"}

\* Some exclude_patterns entry of _is_actual_airport is found in words.
airport_excluded(words) == HasPair(words, EndsWithAirport, AirportExcludedNext)

\* Some airport_patterns entry is found in words.
airport_accepted(words) ==
    \/ EndsIn(words, {"airport"})
    \/ HasPair(words, {"airport"}, {"arrival", "arrivals"})
    \/ HasPair(words, {"airport"}, {"departure", "departures"})
    \/ HasPair(words, {"airport"}, {"terminal"})
    \/ HasPair(words, {"international"}, {"airport"})
    \/ HasPair(words, {"domestic"}, {"airport"})
    \/ HasWord(words, {"aerodrome", "airfield"})

\* Mutant of is_actual_airport: the exclusion patterns are not consulted.
is_actual_airport_without_exclusion(name, full_name) ==
    airport_accepted(LowerAll(name)) \/ airport_accepted(LowerAll(full_name))

is_actual_airport(name, full_name) ==
    LET name_lower == LowerAll(name)
        full_lower == LowerAll(full_name)
        combined == name_lower \o full_lower
    IN  IF airport_excluded(combined) THEN FALSE
        ELSE airport_accepted(name_lower) \/ airport_accepted(full_lower)

\* Some exclude_patterns entry of _is_actual_port is found in words.
port_excluded(words) == HasPair(words, EndsWithPort, PortExcludedNext)

\* Some port_patterns entry is found in words.
port_accepted(words) ==
    \/ EndsIn(words, {"port"})
    \/ HasPair(words, {"port"}, {"of"})
    \/ HasWord(words, {"seaport"})
    \/ EndsIn(words, {"harbour", "harbor"})
    \/ HasPair(words, {"harbour", "harbor"}, {"terminal"})
    \/ HasPair(words, {"container", "maritime"}, {"terminal"})
    \/ HasWord(words, {"wharf", "dock", "pier"})
    \/ HasPair(words, {"jebel"}, {"ali"})

is_actual_port(name, full_name) ==
    LET name_lower == LowerAll(name)
        full_lower == LowerAll(full_name)
        combined == name_lower \o full_lower
    IN  IF port_excluded(combined) THEN FALSE
        ELSE port_accepted(name_lower) \/ port_accepted(full_lower)

(***************************************************************************)
(* Curated lookups: linear scan in table order, nearest entry within       *)
(* max_distance, the first one on equal distance.                          *)
(***************************************************************************)
RECURSIVE ScanKnown(_, _, _, _, _)
ScanKnown(table, location, max_distance, i, best_result) ==
    IF i > Len(table) THEN best_result
    ELSE LET distance == haversine_distance(location, table[i].coordinates)
             better == /\ distance <= max_distance
                       /\ (best_result = None \/ distance < best_result.distance_km)
         IN  ScanKnown(table, location, max_distance, i + 1,
                 IF better
                 THEN [name |-> table[i].name,
                       full_name |-> table[i].name \o <<",">> \o table[i].city,
                       coordinates |-> table[i].coordinates,
                       distance_km |-> distance]
                 ELSE best_result)

\* Mutant of table_after_lookup: the lookup stores the distance it measured
\* in the table entry it returns.
table_after_lookup_annotated(table, best_result) ==
    IF best_result = None THEN table
    ELSE [i \in DOMAIN table |->
             IF table[i].name = best_result.name
             THEN [table[i] EXCEPT !.city = @ \o <<best_result.distance_km>>]
             ELSE table[i]]

\* The curated table after a lookup: best_result is a new dict, no entry of
\* the table is written.
table_after_lookup(table, best_result) == table

find_nearest_known_airport(location) ==
    ScanKnown(known_airports, location, MAX_AIRPORT_DISTANCE, 1, None)

find_nearest_known_port(location, max_distance) ==
    ScanKnown(known_ports, location, max_distance, 1, None)

(***************************************************************************)
(* RouteService._geocode_search_with_country: [raised, issued, value].     *)
(***************************************************************************)
geocode_search_with_country(cfg, response) ==
    IF "mapbox_access_token" \notin cfg.fields
    THEN [raised |-> "AttributeError", issued |-> FALSE, value |-> << >>]
    ELSE IF cfg.mapbox_access_token = ""
    THEN [raised |-> "no", issued |-> FALSE, value |-> << >>]
    ELSE IF response.kind \in {"request_error", "status"}
    THEN [raised |-> "no", issued |-> TRUE, value |-> << >>]
    ELSE IF response.kind = "invalid_json"
    THEN [raised |-> "JSONDecodeError", issued |-> TRUE, value |-> << >>]
    ELSE [raised |-> "no", issued |-> TRUE, value |-> response.features]

\* The three search terms of a lookup, built from the stripped first part of
\* the place name.
Strip(s) == CASE s = " India" -> "India" [] OTHER -> s

airport_search_queries(location_name) ==
    LET city_name == Strip(location_name[1])
    IN  << <<city_name, "International", "Airport">>, <<city_name, "Airport">>,
           <<"International", "Airport">> >>

port_search_queries(location_name) ==
    LET city_name == Strip(location_name[1])
    IN  << <<city_name, "Port">>, <<"Port", "of", city_name>>, <<city_name, "Seaport">> >>

\* Mutant of is_high_confidence: any candidate taken as the best so far is
\* returned at once.
is_high_confidence_within_radius(distance) == distance <= MAX_AIRPORT_DISTANCE

\* if distance < 50: return best_mapbox_result
is_high_confidence(distance) == distance < 50 * KmUnit

\* The result loop of _find_nearest_airport over one answer: [best, returned];
\* returned is the early return on a candidate nearer than 50 km.
RECURSIVE ScanAirportResults(_, _, _, _)
ScanAirportResults(results, location, i, best) ==
    IF i > Len(results) THEN [best |-> best, returned |-> FALSE]
    ELSE LET result == results[i]
             distance == haversine_distance(location, result.coordinates)
         IN  IF ~is_actual_airport(result.name, result.full_name)
             THEN ScanAirportResults(results, location, i + 1, best)
             ELSE IF /\ distance <= MAX_AIRPORT_DISTANCE
                     /\ (best = None \/ distance < best.distance_km)
             THEN LET new == [name |-> result.name, full_name |-> result.full_name,
                              coordinates |-> result.coordinates,
                              distance_km |-> distance]
                  IN  IF is_high_confidence(distance)
                      THEN [best |-> new, returned |-> TRUE]
                      ELSE ScanAirportResults(results, location, i + 1, new)
             ELSE ScanAirportResults(results, location, i + 1, best)

\* Mutant of CombineAirport: on equal distance the geocoded airport wins.
CombineAirport_geocoded_on_tie(known_airport, best_mapbox_result) ==
    IF known_airport # None /\ best_mapbox_result # None
    THEN IF known_airport.distance_km < best_mapbox_result.distance_km
         THEN known_airport ELSE best_mapbox_result
    ELSE IF known_airport # None THEN known_airport ELSE best_mapbox_result

\* The final choice of _find_nearest_airport.
CombineAirport(known_airport, best_mapbox_result) ==
    IF known_airport # None /\ best_mapbox_result # None
    THEN IF known_airport.distance_km <= best_mapbox_result.distance_km
         THEN known_airport ELSE best_mapbox_result
    ELSE IF known_airport # None THEN known_airport ELSE best_mapbox_result

\* Mutant of port_after_search: the inland curated port is preferred to the
\* geocoded one.
port_after_search_inland_first(best_mapbox_result, inland_port) ==
    IF inland_port # None THEN inland_port ELSE best_mapbox_result

\* The final choice of _find_nearest_port: the geocoded port, else the
\* curated port of the inland lookup, else None.
port_after_search(best_mapbox_result, inland_port) ==
    IF best_mapbox_result # None THEN best_mapbox_result ELSE inland_port

\* A result that matches an exclusion pattern although it matches an
\* acceptance pattern.
excluded_airport(result) ==
    /\ airport_excluded(LowerAll(result.name) \o LowerAll(result.full_name))
    /\ \/ airport_accepted(LowerAll(result.name))
       \/ airport_accepted(LowerAll(result.full_name))

excluded_port(result) ==
    /\ port_excluded(LowerAll(result.name) \o LowerAll(result.full_name))
    /\ \/ port_accepted(LowerAll(result.name))
       \/ port_accepted(LowerAll(result.full_name))

\* The result loop of _find_nearest_port over one answer.
RECURSIVE ScanPortResults(_, _, _, _)
ScanPortResults(results, location, i, best) ==
    IF i > Len(results) THEN best
    ELSE LET result == results[i]
             distance == haversine_distance(location, result.coordinates)
         IN  IF /\ is_actual_port(result.name, result.full_name)
                /\ distance <= MAX_PORT_DISTANCE_NEARBY
                /\ (best = None \/ distance < best.distance_km)
             THEN ScanPortResults(results, location, i + 1,
                      [name |-> result.name, full_name |-> result.full_name,
                       coordinates |-> result.coordinates, distance_km |-> distance])
             ELSE ScanPortResults(results, location, i + 1, best)

(***************************************************************************)
(* Air and sea synthesis once both hubs are looked up.                     *)
(***************************************************************************)
\* First part of the place name, unstripped (name.split(",")[0]).
CityOf(location_name) == <<location_name[1]>>

\* Mutant of NotViableRoute: the reason is not passed on.
NotViableRoute_without_reason(transport_mode, reason) ==
    MultiModalRoute(<< >>, 0, 0, 0, transport_mode, FALSE, << >>, NoReason)

NotViableRoute(transport_mode, reason) ==
    MultiModalRoute(<< >>, 0, 0, 0, transport_mode, FALSE, << >>, reason)

\* f"{x:.0f}" of a distance: whole kilometres, ties to even.
FormatKm0(d) == RoundHalfEven(d, KmUnit) \div KmUnit

\* Mutant of air_not_viable: the destination airport is tested first.
air_not_viable_destination_first(origin_name, destination_name, origin_airport, dest_airport) ==
    IF dest_airport = None
    THEN NotViableRoute("air", <<"No airport found near">> \o CityOf(destination_name))
    ELSE IF origin_airport = None
    THEN NotViableRoute("air", <<"No airport found near">> \o CityOf(origin_name))
    ELSE LET flight_distance == haversine_distance(origin_airport.coordinates,
                                                   dest_airport.coordinates)
         IN  IF flight_distance < MIN_FLIGHT_DISTANCE
             THEN NotViableRoute("air",
                      <<"Flight distance (", FormatKm0(flight_distance), "km) too short">>)
             ELSE None

\* Mutant of air_not_viable: a flight of exactly the minimum distance is
\* rejected too.
air_not_viable_at_minimum(origin_name, destination_name, origin_airport, dest_airport) ==
    IF origin_airport = None
    THEN NotViableRoute("air", <<"No airport found near">> \o CityOf(origin_name))
    ELSE IF dest_airport = None
    THEN NotViableRoute("air", <<"No airport found near">> \o CityOf(destination_name))
    ELSE LET flight_distance == haversine_distance(origin_airport.coordinates,
                                                   dest_airport.coordinates)
         IN  IF flight_distance <= MIN_FLIGHT_DISTANCE
             THEN NotViableRoute("air",
                      <<"Flight distance (", FormatKm0(flight_distance), "km) too short">>)
             ELSE None

\* The early returns of _compute_air_route: the not-viable route, or None
\* when the three segments are to be built.
air_not_viable(origin_name, destination_name, origin_airport, dest_airport) ==
    IF origin_airport = None
    THEN NotViableRoute("air", <<"No airport found near">> \o CityOf(origin_name))
    ELSE IF dest_airport = None
    THEN NotViableRoute("air", <<"No airport found near">> \o CityOf(destination_name))
    ELSE LET flight_distance == haversine_distance(origin_airport.coordinates,
                                                   dest_airport.coordinates)
         IN  IF flight_distance < MIN_FLIGHT_DISTANCE
             THEN NotViableRoute("air",
                      <<"Flight distance (", FormatKm0(flight_distance), "km) too short">>)
             ELSE None

\* Mutant of sea_not_viable: a minimum shipping distance as for flights.
sea_not_viable_minimum_distance(origin_name, destination_name, origin_port, dest_port) ==
    IF origin_port = None
    THEN NotViableRoute("sea", <<"No port found near">> \o CityOf(origin_name))
    ELSE IF dest_port = None
    THEN NotViableRoute("sea", <<"No port found near">> \o CityOf(destination_name))
    ELSE IF haversine_distance(origin_port.coordinates, dest_port.coordinates)
               < MIN_FLIGHT_DISTANCE
    THEN NotViableRoute("sea", <<"Shipping distance too short">>)
    ELSE None

\* The early returns of _compute_sea_route.
sea_not_viable(origin_name, destination_name, origin_port, dest_port) ==
    IF origin_port = None
    THEN NotViableRoute("sea", <<"No port found near">> \o CityOf(origin_name))
    ELSE IF dest_port = None
    THEN NotViableRoute("sea", <<"No port found near">> \o CityOf(destination_name))
    ELSE None

\* Mutant of TotalKm: the last road leg is not added.
TotalKm_without_last_leg(a, b, c) == RoundKm2(a + b)

\* Rounded total of three unrounded values.
TotalKm(a, b, c) == RoundKm2(a + b + c)
TotalHours(a, b, c) == RoundHours2(a + b + c)
TotalKg(a, b, c) == RoundKg4(a + b + c)

\* Mutant of Waypoint: every hub is recorded as an airport.
Waypoint_always_airport(hub, type) ==
    [name |-> hub.name, type |-> "airport", coordinates |-> hub.coordinates]

Waypoint(hub, type) == [name |-> hub.name, type |-> type, coordinates |-> hub.coordinates]

\* The segment construction of _compute_air_route; road1 and road2 are what
\* the two road-route calls returned.
compute_air_route(origin, destination, weight_kg, origin_name, destination_name, origin_airport, dest_airport, road1, road2) ==
    LET flight_distance == haversine_distance(origin_airport.coordinates,
                                              dest_airport.coordinates)
        leg1 == RoadLeg(road1, Times13(origin_airport.distance_km), origin,
                        origin_airport.coordinates, 10)
        road1_emission == calculate_emission(leg1.distance, weight_kg, "land")
        flight_duration == TravelTime(flight_distance, "air") + (3 * HourUnit) \div 2
        flight_emission == calculate_emission(flight_distance, weight_kg, "air")
        flight_geometry == interpolate_great_circle(origin_airport.coordinates,
                                                    dest_airport.coordinates, 30)
        leg2 == RoadLeg(road2, Times13(dest_airport.distance_km),
                        dest_airport.coordinates, destination, 10)
        road2_emission == calculate_emission(leg2.distance, weight_kg, "land")
    IN  IF road1_emission.raised # "no" THEN [raised |-> road1_emission.raised, route |-> None]
        ELSE IF flight_emission.raised # "no" THEN [raised |-> flight_emission.raised, route |-> None]
        ELSE IF road2_emission.raised # "no" THEN [raised |-> road2_emission.raised, route |-> None]
        ELSE [raised |-> "no",
              route |-> MultiModalRoute(
                  << RouteSegment("land", CityOf(origin_name), origin,
                         origin_airport.name, origin_airport.coordinates,
                         RoundKm2(leg1.distance), RoundHours2(leg1.duration),
                         road1_emission.emission_kg_co2, leg1.geometry),
                     RouteSegment("air", origin_airport.name, origin_airport.coordinates,
                         dest_airport.name, dest_airport.coordinates,
                         RoundKm2(flight_distance), RoundHours2(flight_duration),
                         flight_emission.emission_kg_co2, flight_geometry),
                     RouteSegment("land", dest_airport.name, dest_airport.coordinates,
                         CityOf(destination_name), destination,
                         RoundKm2(leg2.distance), RoundHours2(leg2.duration),
                         road2_emission.emission_kg_co2, leg2.geometry) >>,
                  TotalKm(leg1.distance, flight_distance, leg2.distance),
                  TotalHours(leg1.duration, flight_duration, leg2.duration),
                  TotalKg(road1_emission.emission_kg_co2, flight_emission.emission_kg_co2,
                          road2_emission.emission_kg_co2),
                  "air", TRUE,
                  << Waypoint(origin_airport, "airport"), Waypoint(dest_airport, "airport") >>,
                  NoReason)]

\* The segment construction of _compute_sea_route.
compute_sea_route(origin, destination, weight_kg, origin_name, destination_name, origin_port, dest_port, road1, road2) ==
    LET shipping_distance == Times13(haversine_distance(origin_port.coordinates,
                                                        dest_port.coordinates))
        leg1 == RoadLeg(road1, Times13(origin_port.distance_km), origin,
                        origin_port.coordinates, 10)
        road1_emission == calculate_emission(leg1.distance, weight_kg, "land")
        shipping_duration == TravelTime(shipping_distance, "sea") + 24 * HourUnit
        shipping_emission == calculate_emission(shipping_distance, weight_kg, "sea")
        shipping_geometry == interpolate_great_circle(origin_port.coordinates,
                                                      dest_port.coordinates, 40)
        leg2 == RoadLeg(road2, Times13(dest_port.distance_km),
                        dest_port.coordinates, destination, 10)
        road2_emission == calculate_emission(leg2.distance, weight_kg, "land")
    IN  IF road1_emission.raised # "no" THEN [raised |-> road1_emission.raised, route |-> None]
        ELSE IF shipping_emission.raised # "no" THEN [raised |-> shipping_emission.raised, route |-> None]
        ELSE IF road2_emission.raised # "no" THEN [raised |-> road2_emission.raised, route |-> None]
        ELSE [raised |-> "no",
              route |-> MultiModalRoute(
                  << RouteSegment("land", CityOf(origin_name), origin,
                         origin_port.name, origin_port.coordinates,
                         RoundKm2(leg1.distance), RoundHours2(leg1.duration),
                         road1_emission.emission_kg_co2, leg1.geometry),
                     RouteSegment("sea", origin_port.name, origin_port.coordinates,
                         dest_port.name, dest_port.coordinates,
                         RoundKm2(shipping_distance), RoundHours2(shipping_duration),
                         shipping_emission.emission_kg_co2, shipping_geometry),
                     RouteSegment("land", dest_port.name, dest_port.coordinates,
                         CityOf(destination_name), destination,
                         RoundKm2(leg2.distance), RoundHours2(leg2.duration),
                         road2_emission.emission_kg_co2, leg2.geometry) >>,
                  TotalKm(leg1.distance, shipping_distance, leg2.distance),
                  TotalHours(leg1.duration, shipping_duration, leg2.duration),
                  TotalKg(road1_emission.emission_kg_co2, shipping_emission.emission_kg_co2,
                          road2_emission.emission_kg_co2),
                  "sea", TRUE,
                  << Waypoint(origin_port, "port"), Waypoint(dest_port, "port") >>,
                  NoReason)]

(***************************************************************************)
(* Aggregation of compute_all_routes.                                      *)
(***************************************************************************)
\* Mutant of AllRoutes: the sea route is left out.
AllRoutes_without_sea(land, air, sea) == <<land, air>>

\* Mutant of AllRoutes: the routes listed in the order land, sea, air.
AllRoutes_land_sea_air(land, air, sea) == <<land, sea, air>>

\* The order of all_routes.
AllRoutes(land, air, sea) == <<land, air, sea>>

IsViable(r) == r.is_viable

\* Mutant of ViableRoutes: the viability filter is left out.
ViableRoutes_unfiltered(all_routes) == all_routes

\* viable_routes, with the land route forced in when none is viable.
ViableRoutes(all_routes) ==
    LET viable_routes == SelectSeq(all_routes, IsViable)
    IN  IF viable_routes = << >> THEN <<all_routes[1]>> ELSE viable_routes

\* min(routes, key=...): the first route with the least key.
RECURSIVE MinFrom(_, _, _, _)
MinFrom(routes, field, i, best) ==
    IF i > Len(routes) THEN best
    ELSE MinFrom(routes, field, i + 1,
                 IF routes[i][field] < best[field] THEN routes[i] ELSE best)

MinBy(routes, field) == MinFrom(routes, field, 2, routes[1])

RECURSIVE ConcatGeometry(_, _)
ConcatGeometry(segments, i) ==
    IF i > Len(segments) THEN << >>
    ELSE segments[i].geometry \o ConcatGeometry(segments, i + 1)

combine_geometries(route) == ConcatGeometry(route.segments, 1)

RouteInfo(route, route_type) ==
    [distance_km |-> route.total_distance_km,
     duration_hours |-> route.total_duration_hours,
     geometry |-> combine_geometries(route),
     emission_kg_co2 |-> route.total_emission_kg_co2,
     route_type |-> route_type,
     transport_mode |-> route.transport_mode]

\* Mutant of ModeComparison: the flags compare the totals instead of the modes.
ModeComparison_flag_by_value(route, shortest, efficient) ==
    [transport_mode |-> route.transport_mode,
     distance_km |-> route.total_distance_km,
     duration_hours |-> route.total_duration_hours,
     emission_kg_co2 |-> route.total_emission_kg_co2,
     is_shortest |-> (route.total_distance_km = shortest.total_distance_km),
     is_most_efficient |-> (route.total_emission_kg_co2 = efficient.total_emission_kg_co2),
     is_viable |-> route.is_viable,
     not_viable_reason |-> route.not_viable_reason]

ModeComparison(route, shortest, efficient) ==
    [transport_mode |-> route.transport_mode,
     distance_km |-> route.total_distance_km,
     duration_hours |-> route.total_duration_hours,
     emission_kg_co2 |-> route.total_emission_kg_co2,
     is_shortest |-> (route.transport_mode = shortest.transport_mode),
     is_most_efficient |-> (route.transport_mode = efficient.transport_mode),
     is_viable |-> route.is_viable,
     not_viable_reason |-> route.not_viable_reason]

\* What compute_all_routes returns from the three routes.
aggregate_routes(land, air, sea) ==
    LET all_routes == AllRoutes(land, air, sea)
        viable_routes == ViableRoutes(all_routes)
        shortest == MinBy(viable_routes, "total_distance_km")
        efficient == MinBy(viable_routes, "total_emission_kg_co2")
    IN  [shortest_route |-> RouteInfo(shortest, "shortest"),
         efficient_route |-> RouteInfo(efficient, "efficient"),
         mode_comparison |-> [i \in 1..Len(all_routes) |->
                                 ModeComparison(all_routes[i], shortest, efficient)],
         all_routes |-> all_routes]

(***************************************************************************)
(* State: one compute_all_routes call on the module-level RouteService,    *)
(* advancing from one await to the next.                                   *)
(***************************************************************************)
VARIABLES
    settings,        \* the settings object the service reads
    pc,              \* position of the call
    request,         \* arguments of the call
    land_route, air_route, sea_route,
    origin_airport, dest_airport, origin_port, dest_port,
    lookup,          \* locals of the hub lookup in progress; excluded records
                     \* that the loop skipped a result for an exclusion pattern
    result,          \* the returned tuple
    failure,         \* exception that ended the call, "no" if none
    road_calls,      \* directions requests issued by the call
    geocode_calls,   \* geocoding requests issued by the call
    road_route,      \* what _get_road_route returned to _compute_land_route
    airport_results  \* distance of the nearest accepted result within range
                     \* that the answers to the searches of the airport
                     \* lookup contained, while the lookup is in progress and
                     \* when it has just returned from its result loop

\* The calls the other services of the process serve: EmissionService and
\* the geodesy helper called directly, SearchService on the "searches"
\* collection, AuthService on the "users" collection.
VARIABLES
    call,            \* the service call observed: operation, arguments and
                     \* what it returned or raised; for a listing between its
                     \* two queries, the count it has so far
    searches,        \* documents of the "searches" collection, in insertion
                     \* order
    object_ids,      \* number of ObjectIds the database has generated
    clock,           \* datetime.utcnow(), in ticks
    users,           \* documents of the "users" collection
    tasks            \* the register_user coroutines

service_vars == <<call, searches, object_ids, clock, users, tasks>>

vars == <<settings, pc, request, land_route, air_route, sea_route,
          origin_airport, dest_airport, origin_port, dest_port, lookup,
          result, failure, road_calls, geocode_calls, road_route, airport_results,
          known_airports, known_ports, average_speeds, emission_factors, call, searches,
          object_ids, clock, users, tasks>>

NoLookup == [q |-> 0, known |-> None, best |-> None, excluded |-> FALSE]

\* No call on the other services, empty collections.
ServicesIdle ==
    /\ call = None
    /\ searches = << >>
    /\ object_ids = 0
    /\ clock = 0
    /\ users = << >>
    /\ tasks = << >>

Init ==
    /\ settings \in SettingsValues
    /\ pc = "idle"
    /\ request = None
    /\ land_route = None /\ air_route = None /\ sea_route = None
    /\ origin_airport = None /\ dest_airport = None
    /\ origin_port = None /\ dest_port = None
    /\ lookup = NoLookup
    /\ result = None
    /\ failure = "no"
    /\ road_calls = 0
    /\ geocode_calls = 0
    /\ road_route = None
    /\ airport_results = None
    /\ known_airports = KNOWN_AIRPORTS
    /\ known_ports = KNOWN_PORTS
    /\ average_speeds = AVERAGE_SPEEDS
    /\ emission_factors = EmissionFactors
    /\ ServicesIdle

Calls(answer) == IF answer.issued THEN 1 ELSE 0

\* An exception leaves compute_all_routes.
Raise(exception) ==
    /\ pc' = "failed"
    /\ failure' = exception

\* compute_all_routes is called.
Request ==
    /\ UNCHANGED service_vars
    /\ airport_results' = None
    /\ pc = "idle"
    /\ \E origin \in Locations, destination \in Locations, weight_kg \in Weights :
          request' = [origin |-> origin.coordinates,
                      destination |-> destination.coordinates,
                      weight_kg |-> weight_kg, origin_name |-> origin.name,
                      destination_name |-> destination.name]
    /\ pc' = "land"
    /\ UNCHANGED <<settings, land_route, air_route, sea_route, origin_airport,
                   dest_airport, origin_port, dest_port, lookup, result, failure,
                   road_calls, geocode_calls, road_route, shared>>

\* _compute_land_route.
ComputeLandRoute ==
    /\ UNCHANGED service_vars
    /\ airport_results' = None
    /\ pc = "land"
    /\ \E response \in RoadResponses(request.origin, request.destination) :
          LET road == get_road_route(settings, response)
              land == compute_land_route(request.origin, request.destination,
                                         request.weight_kg, road.value)
          IN  /\ road_calls' = road_calls + Calls(road)
              /\ road_route' = road.value
              /\ IF road.raised # "no"
                 THEN Raise(road.raised) /\ UNCHANGED land_route
                 ELSE IF land.raised # "no"
                 THEN Raise(land.raised) /\ UNCHANGED land_route
                 ELSE /\ land_route' = land.route
                      /\ pc' = "air_origin"
                      /\ UNCHANGED failure
    /\ UNCHANGED <<settings, request, air_route, sea_route, origin_airport,
                   dest_airport, origin_port, dest_port, lookup, result, geocode_calls,
                   shared>>

\* Arguments of the hub lookup the call is in.
LookupLocation == IF pc \in {"air_origin", "sea_origin"} THEN request.origin
                  ELSE request.destination
LookupName == IF pc \in {"air_origin", "sea_origin"} THEN request.origin_name
              ELSE request.destination_name

\* Features an airport search may return.  The search is biased to the
\* place looked up: around Faraway it finds the two airports next to it and
\* the road named after an airport; around the other places the two large
\* airports, that road, and a hub of the other kind.
AirportSearchFeatures ==
    {f \in GeoFeatures :
        f.name \in IF LookupLocation = 1240000
                   THEN {<<"Epsilon", "Airport">>, <<"Zeta", "Airport">>,
                         <<"Airport", "Road">>}
                   ELSE {<<"Delta", "International", "Airport">>,
                         <<"Epsilon", "Airport">>, <<"Airport", "Road">>,
                         <<"Port", "of", "Delta">>}}

\* A hub lookup returns hub to _compute_air_route / _compute_sea_route.
ReturnHub(hub) ==
    /\ lookup' = NoLookup
    /\ UNCHANGED failure
    /\ CASE pc = "air_origin" ->
              /\ origin_airport' = hub /\ pc' = "air_dest"
              /\ UNCHANGED <<dest_airport, origin_port, dest_port>>
         [] pc = "air_dest" ->
              /\ dest_airport' = hub /\ pc' = "air_build"
              /\ UNCHANGED <<origin_airport, origin_port, dest_port>>
         [] pc = "sea_origin" ->
              /\ origin_port' = hub /\ pc' = "sea_dest"
              /\ UNCHANGED <<origin_airport, dest_airport, dest_port>>
         [] pc = "sea_dest" ->
              /\ dest_port' = hub /\ pc' = "sea_build"
              /\ UNCHANGED <<origin_airport, dest_airport, origin_port>>

\* Mutant of is_strong_match: only a curated airport closer than 30 km is
\* returned at once.
is_strong_match_30km(known_airport) ==
    known_airport # None /\ known_airport.distance_km < 30 * KmUnit

\* The curated airport is returned without a search.
is_strong_match(known_airport) ==
    known_airport # None /\ known_airport.distance_km < 100 * KmUnit

\* The results of an answer that the loop of _find_nearest_airport accepts
\* as airports within MAX_AIRPORT_DISTANCE of the location.
AcceptedInRange(results, location) ==
    {results[i] : i \in {j \in DOMAIN results :
        /\ is_actual_airport(results[j].name, results[j].full_name)
        /\ haversine_distance(location, results[j].coordinates) <= MAX_AIRPORT_DISTANCE}}

\* The least distance among nearest (if any) and the accepted results of an
\* answer within range.
NearestInRange(results, location, nearest) ==
    LET distances == {haversine_distance(location, r.coordinates) :
                          r \in AcceptedInRange(results, location)}
                     \cup (IF nearest = None THEN {} ELSE {nearest.distance_km})
    IN  IF distances = {} THEN None
        ELSE [distance_km |-> CHOOSE d \in distances : \A e \in distances : d <= e]

\* _find_nearest_airport up to its first geocoding search.
FindNearestAirport ==
    /\ UNCHANGED service_vars
    /\ airport_results' = None
    /\ pc \in {"air_origin", "air_dest"}
    /\ lookup.q = 0
    /\ LET known_airport == find_nearest_known_airport(LookupLocation)
       IN  /\ known_airports' = table_after_lookup(known_airports, known_airport)
           /\ IF is_strong_match(known_airport)
              THEN ReturnHub(known_airport)
              ELSE /\ lookup' = [q |-> 1, known |-> known_airport, best |-> None,
                                excluded |-> FALSE]
                   /\ UNCHANGED <<pc, failure, origin_airport, dest_airport,
                                  origin_port, dest_port>>
    /\ UNCHANGED <<settings, request, land_route, air_route, sea_route, result,
                   road_calls, geocode_calls, road_route, known_ports,
                   average_speeds, emission_factors>>

\* _find_nearest_airport: one geocoding search and the loop over its results.
AirportGeocodeSearch ==
    /\ UNCHANGED service_vars
    /\ pc \in {"air_origin", "air_dest"}
    /\ lookup.q \in 1..Len(airport_search_queries(LookupName))
    /\ \E response \in GeocodeResponses(AirportSearchFeatures) :
          LET results == geocode_search_with_country(settings, response)
              scan == ScanAirportResults(results.value, LookupLocation, 1, lookup.best)
          IN  /\ geocode_calls' = geocode_calls + Calls(results)
              /\ airport_results' = IF results.raised # "no" THEN None
                                    ELSE NearestInRange(results.value, LookupLocation,
                                                        airport_results)
              /\ IF results.raised # "no"
                 THEN /\ Raise(results.raised)
                      /\ UNCHANGED <<lookup, origin_airport, dest_airport,
                                     origin_port, dest_port>>
                 ELSE IF scan.returned
                 THEN ReturnHub(scan.best)
                 ELSE /\ lookup' = [lookup EXCEPT !.q = @ + 1, !.best = scan.best,
                                  !.excluded = @ \/ \E i \in DOMAIN results.value :
                                                       excluded_airport(results.value[i])]
                      /\ UNCHANGED <<pc, failure, origin_airport, dest_airport,
                                     origin_port, dest_port>>
    /\ UNCHANGED <<settings, request, land_route, air_route, sea_route, result,
                   road_calls, road_route, shared>>

\* _find_nearest_airport after the last search: the final choice.
AirportCombine ==
    /\ UNCHANGED service_vars
    /\ airport_results' = None
    /\ pc \in {"air_origin", "air_dest"}
    /\ lookup.q = Len(airport_search_queries(LookupName)) + 1
    /\ ReturnHub(CombineAirport(lookup.known, lookup.best))
    /\ UNCHANGED <<settings, request, land_route, air_route, sea_route, result,
                   road_calls, geocode_calls, road_route, shared>>

\* _compute_air_route once both airports are looked up.
ComputeAirRoute ==
    /\ UNCHANGED service_vars
    /\ airport_results' = None
    /\ pc = "air_build"
    /\ LET early == air_not_viable(request.origin_name, request.destination_name,
                                   origin_airport, dest_airport)
       IN  IF early # None
           THEN /\ air_route' = early
                /\ pc' = "sea_origin"
                /\ UNCHANGED <<failure, road_calls>>
           ELSE \E response1 \in RoadResponses(request.origin, origin_airport.coordinates),
                   response2 \in RoadResponses(dest_airport.coordinates, request.destination) :
                   LET road1 == get_road_route(settings, response1)
                       road2 == get_road_route(settings, response2)
                       air == compute_air_route(request.origin, request.destination,
                                  request.weight_kg, request.origin_name,
                                  request.destination_name, origin_airport,
                                  dest_airport, road1.value, road2.value)
                   IN  IF road1.raised # "no"
                       THEN /\ Raise(road1.raised)
                            /\ road_calls' = road_calls + Calls(road1)
                            /\ UNCHANGED air_route
                       ELSE IF road2.raised # "no"
                       THEN /\ Raise(road2.raised)
                            /\ road_calls' = road_calls + Calls(road1) + Calls(road2)
                            /\ UNCHANGED air_route
                       ELSE /\ road_calls' = road_calls + Calls(road1) + Calls(road2)
                            /\ IF air.raised # "no"
                               THEN Raise(air.raised) /\ UNCHANGED air_route
                               ELSE /\ air_route' = air.route
                                    /\ pc' = "sea_origin"
                                    /\ UNCHANGED failure
    /\ UNCHANGED <<settings, request, land_route, sea_route, origin_airport,
                   dest_airport, origin_port, dest_port, lookup, result, geocode_calls,
                   road_route, shared>>

\* _find_nearest_port up to its first geocoding search.
FindNearestPort ==
    /\ UNCHANGED service_vars
    /\ airport_results' = None
    /\ pc \in {"sea_origin", "sea_dest"}
    /\ lookup.q = 0
    /\ LET nearby_port == find_nearest_known_port(LookupLocation, MAX_PORT_DISTANCE_NEARBY)
       IN  /\ known_ports' = table_after_lookup(known_ports, nearby_port)
           /\ IF nearby_port # None
              THEN ReturnHub(nearby_port)
              ELSE /\ lookup' = [q |-> 1, known |-> None, best |-> None,
                                excluded |-> FALSE]
                   /\ UNCHANGED <<pc, failure, origin_airport, dest_airport,
                                  origin_port, dest_port>>
    /\ UNCHANGED <<settings, request, land_route, air_route, sea_route, result,
                   road_calls, geocode_calls, road_route, known_airports,
                   average_speeds, emission_factors>>

\* _find_nearest_port: one geocoding search and the loop over its results.
PortGeocodeSearch ==
    /\ UNCHANGED service_vars
    /\ airport_results' = None
    /\ pc \in {"sea_origin", "sea_dest"}
    /\ lookup.q \in 1..Len(port_search_queries(LookupName))
    /\ \E response \in GeocodeResponses(PortSearchFeatures) :
          LET results == geocode_search_with_country(settings, response)
              best_mapbox_result == ScanPortResults(results.value, LookupLocation, 1,
                                                    lookup.best)
          IN  /\ geocode_calls' = geocode_calls + Calls(results)
              /\ IF results.raised # "no"
                 THEN /\ Raise(results.raised)
                      /\ UNCHANGED <<lookup, origin_airport, dest_airport,
                                     origin_port, dest_port>>
                 ELSE /\ lookup' = [lookup EXCEPT !.q = @ + 1, !.best = best_mapbox_result,
                                  !.excluded = @ \/ \E i \in DOMAIN results.value :
                                                       excluded_port(results.value[i])]
                      /\ UNCHANGED <<pc, failure, origin_airport, dest_airport,
                                     origin_port, dest_port>>
    /\ UNCHANGED <<settings, request, land_route, air_route, sea_route, result,
                   road_calls, road_route, shared>>

\* _find_nearest_port after the last search: the geocoded port, or the
\* curated lookup at the inland radius.
PortFallback ==
    /\ UNCHANGED service_vars
    /\ airport_results' = None
    /\ pc \in {"sea_origin", "sea_dest"}
    /\ lookup.q = Len(port_search_queries(LookupName)) + 1
    /\ LET inland_port == find_nearest_known_port(LookupLocation,
                                                  MAX_PORT_DISTANCE_INLAND)
       IN  /\ ReturnHub(port_after_search(lookup.best, inland_port))
           /\ IF lookup.best # None
              THEN UNCHANGED known_ports
              ELSE known_ports' = table_after_lookup(known_ports, inland_port)
    /\ UNCHANGED <<settings, request, land_route, air_route, sea_route, result,
                   road_calls, geocode_calls, road_route, known_airports,
                   average_speeds, emission_factors>>

\* _compute_sea_route once both ports are looked up.
ComputeSeaRoute ==
    /\ UNCHANGED service_vars
    /\ airport_results' = None
    /\ pc = "sea_build"
    /\ LET early == sea_not_viable(request.origin_name, request.destination_name,
                                   origin_port, dest_port)
       IN  IF early # None
           THEN /\ sea_route' = early
                /\ pc' = "aggregate"
                /\ UNCHANGED <<failure, road_calls>>
           ELSE \E response1 \in RoadResponses(request.origin, origin_port.coordinates),
                   response2 \in RoadResponses(dest_port.coordinates, request.destination) :
                   LET road1 == get_road_route(settings, response1)
                       road2 == get_road_route(settings, response2)
                       sea == compute_sea_route(request.origin, request.destination,
                                  request.weight_kg, request.origin_name,
                                  request.destination_name, origin_port,
                                  dest_port, road1.value, road2.value)
                   IN  IF road1.raised # "no"
                       THEN /\ Raise(road1.raised)
                            /\ road_calls' = road_calls + Calls(road1)
                            /\ UNCHANGED sea_route
                       ELSE IF road2.raised # "no"
                       THEN /\ Raise(road2.raised)
                            /\ road_calls' = road_calls + Calls(road1) + Calls(road2)
                            /\ UNCHANGED sea_route
                       ELSE /\ road_calls' = road_calls + Calls(road1) + Calls(road2)
                            /\ IF sea.raised # "no"
                               THEN Raise(sea.raised) /\ UNCHANGED sea_route
                               ELSE /\ sea_route' = sea.route
                                    /\ pc' = "aggregate"
                                    /\ UNCHANGED failure
    /\ UNCHANGED <<settings, request, land_route, air_route, origin_airport,
                   dest_airport, origin_port, dest_port, lookup, result, geocode_calls,
                   road_route, shared>>

\* The selection and comparison of compute_all_routes, and its return.
Aggregate ==
    /\ UNCHANGED service_vars
    /\ airport_results' = None
    /\ pc = "aggregate"
    /\ result' = aggregate_routes(land_route, air_route, sea_route)
    /\ pc' = "done"
    /\ UNCHANGED <<settings, request, land_route, air_route, sea_route,
                   origin_airport, dest_airport, origin_port, dest_port, lookup,
                   failure, road_calls, geocode_calls, road_route, shared>>

\* The caller has the result or the exception; the service is ready for the
\* next call.
Finish ==
    /\ UNCHANGED service_vars
    /\ airport_results' = None
    /\ pc \in {"done", "failed"}
    /\ pc' = "idle"
    /\ request' = None
    /\ land_route' = None /\ air_route' = None /\ sea_route' = None
    /\ origin_airport' = None /\ dest_airport' = None
    /\ origin_port' = None /\ dest_port' = None
    /\ lookup' = NoLookup
    /\ result' = None
    /\ failure' = "no"
    /\ road_calls' = 0
    /\ geocode_calls' = 0
    /\ road_route' = None
    /\ UNCHANGED <<settings, shared>>

Next ==
    \/ Request
    \/ ComputeLandRoute
    \/ FindNearestAirport
    \/ AirportGeocodeSearch
    \/ AirportCombine
    \/ ComputeAirRoute
    \/ FindNearestPort
    \/ PortGeocodeSearch
    \/ PortFallback
    \/ ComputeSeaRoute
    \/ Aggregate
    \/ Finish

Spec == Init /\ [][Next]_vars

(***************************************************************************)
(* Properties.                                                             *)
(***************************************************************************)
\* The routes a finished call returned, in the order returned.
Returned == result.all_routes

RouteOf(mode) ==
    CASE mode = "land" -> land_route [] mode = "air" -> air_route [] mode = "sea" -> sea_route

RECURSIVE SumField(_, _, _)
SumField(segments, field, i) ==
    IF i > Len(segments) THEN 0
    ELSE segments[i][field] + SumField(segments, field, i + 1)

\* C1: whatever the hub lookups and the road-route calls returned (a route or
\* unavailable), the land route is viable, so at the selection at least one
\* route is viable and the land route never has to be forced in; a call ends
\* with an exception only for a negative weight or when a provider adapter
\* itself raised instead of returning.
C1_LandRouteAlwaysViable ==
    /\ land_route # None => land_route.is_viable
    /\ pc \in {"aggregate", "done"} =>
          SelectSeq(AllRoutes(land_route, air_route, sea_route), IsViable) # << >>
    /\ pc = "failed" =>
          \/ failure = "ValueError" /\ request.weight_kg < 0
          \/ failure \in {"AttributeError", "JSONDecodeError"}

\* C1 witness: a call returned with neither the air nor the sea route viable,
\* the road provider having been unavailable for the land route.
C1_Witness ==
    /\ pc = "done"
    /\ ~air_route.is_viable /\ ~sea_route.is_viable
    /\ Len(land_route.segments[1].geometry) = 21
    /\ result.shortest_route.transport_mode = "land"

\* C2: the shortest route is a viable route of least total distance and the
\* efficient route a viable route of least total emission; a route that is
\* not viable is never selected.
C2_SelectionIsMinimalViable ==
    pc = "done" =>
        /\ \E i \in 1..Len(Returned) :
              /\ Returned[i].is_viable
              /\ Returned[i].transport_mode = result.shortest_route.transport_mode
              /\ Returned[i].total_distance_km = result.shortest_route.distance_km
              /\ \A j \in 1..Len(Returned) : Returned[j].is_viable =>
                    Returned[i].total_distance_km <= Returned[j].total_distance_km
        /\ \E i \in 1..Len(Returned) :
              /\ Returned[i].is_viable
              /\ Returned[i].transport_mode = result.efficient_route.transport_mode
              /\ Returned[i].total_emission_kg_co2 = result.efficient_route.emission_kg_co2
              /\ \A j \in 1..Len(Returned) : Returned[j].is_viable =>
                    Returned[i].total_emission_kg_co2 <= Returned[j].total_emission_kg_co2

\* C2 witness: a call returned with a route that is not viable (totals 0) next
\* to viable routes of positive distance and emission, and the two selections
\* fell on different modes.
C2_Witness ==
    /\ pc = "done"
    /\ \E i \in 1..Len(Returned) : ~Returned[i].is_viable
    /\ result.shortest_route.distance_km > 0
    /\ result.efficient_route.emission_kg_co2 > 0
    /\ result.shortest_route.transport_mode # result.efficient_route.transport_mode

\* Modes of the viable returned routes whose field is least among the viable.
TiedModes(field) ==
    {Returned[i].transport_mode : i \in
        {i \in 1..Len(Returned) :
            /\ Returned[i].is_viable
            /\ \A j \in 1..Len(Returned) : Returned[j].is_viable =>
                  Returned[i][field] <= Returned[j][field]}}

\* The first mode of order that is in modes.
FirstOf(order, modes) ==
    order[CHOOSE i \in 1..Len(order) :
            order[i] \in modes /\ \A j \in 1..(i - 1) : order[j] \notin modes]

\* C3 as stated: among viable routes tied on the least distance (emission)
\* the first in the order land, sea, air is selected.
C3_TieBreakLandSeaAir ==
    pc = "done" =>
        /\ result.shortest_route.transport_mode =
              FirstOf(<<"land", "sea", "air">>, TiedModes("total_distance_km"))
        /\ result.efficient_route.transport_mode =
              FirstOf(<<"land", "sea", "air">>, TiedModes("total_emission_kg_co2"))

\* C3 amended: among viable routes tied on the least distance (emission) the
\* first in the order land, air, sea is selected; a tie between the sea and
\* the air route selects air.
C3_TieBreakLandAirSea ==
    pc = "done" =>
        /\ result.shortest_route.transport_mode =
              FirstOf(<<"land", "air", "sea">>, TiedModes("total_distance_km"))
        /\ result.efficient_route.transport_mode =
              FirstOf(<<"land", "air", "sea">>, TiedModes("total_emission_kg_co2"))

\* C3 witness: for a positive weight the sea and the air route tie on the
\* least distance, the land route being longer.
C3_Witness ==
    /\ pc = "done"
    /\ request.weight_kg > 0
    /\ TiedModes("total_distance_km") = {"sea", "air"}
    /\ result.shortest_route.transport_mode = "air"

\* C4: a returned route that is not viable has no segments, no waypoints,
\* totals 0 and a reason; a viable one has a segment and no reason.
C4_ViabilityShape ==
    pc = "done" =>
        \A i \in 1..Len(Returned) :
            LET r == Returned[i]
            IN  /\ ~r.is_viable =>
                      /\ r.segments = << >> /\ r.waypoints = << >>
                      /\ r.total_distance_km = 0 /\ r.total_duration_hours = 0
                      /\ r.total_emission_kg_co2 = 0
                      /\ r.not_viable_reason # NoReason
                /\ r.is_viable =>
                      /\ Len(r.segments) >= 1
                      /\ r.not_viable_reason = NoReason

\* C4 witness: a call returned a viable three-segment route and a route that
\* is not viable.
C4_Witness ==
    /\ pc = "done"
    /\ \E i, j \in 1..Len(Returned) :
          /\ ~Returned[i].is_viable
          /\ Returned[j].is_viable /\ Len(Returned[j].segments) = 3

\* C5 as stated: the totals of a viable route are the sums of the values
\* stored in its segments.
C5_TotalsAreSegmentSums ==
    \A mode \in TransportMode :
        LET r == RouteOf(mode)
        IN  (r # None /\ r.is_viable) =>
                /\ r.total_distance_km = SumField(r.segments, "distance_km", 1)
                /\ r.total_duration_hours = SumField(r.segments, "duration_hours", 1)
                /\ r.total_emission_kg_co2 = SumField(r.segments, "emission_kg_co2", 1)

\* C5 amended: the total emission is the sum of the segments' emissions; the
\* total distance and duration are rounded from the unrounded legs, so they
\* are within 0.02 km (0.02 h) of the sums of the stored rounded values, and
\* equal to them for the one-segment land route.
C5_TotalsNearSegmentSums ==
    \A mode \in TransportMode :
        LET r == RouteOf(mode)
        IN  (r # None /\ r.is_viable) =>
                /\ r.total_emission_kg_co2 = SumField(r.segments, "emission_kg_co2", 1)
                /\ Abs(r.total_distance_km - SumField(r.segments, "distance_km", 1))
                      <= 2 * (KmUnit \div 100)
                /\ Abs(r.total_duration_hours - SumField(r.segments, "duration_hours", 1))
                      <= 2 * (HourUnit \div 100)
                /\ Len(r.segments) = 1 =>
                      /\ r.total_distance_km = r.segments[1].distance_km
                      /\ r.total_duration_hours = r.segments[1].duration_hours

\* C5 witness: a viable three-segment route whose total distance differs
\* from the sum of its segments' stored distances, with a positive emission.
C5_Witness ==
    \E mode \in {"air", "sea"} :
        LET r == RouteOf(mode)
        IN  /\ r # None /\ r.is_viable
            /\ r.total_emission_kg_co2 > 0
            /\ r.total_distance_km # SumField(r.segments, "distance_km", 1)

\* C6: the comparison has one entry per mode, exactly one flagged shortest
\* and exactly one flagged most efficient, both viable and of the mode of the
\* selected route, and each entry carries its route's viability, totals and
\* reason.
C6_ModeComparison ==
    pc = "done" =>
        LET mc == result.mode_comparison
            idx == 1..Len(mc)
        IN  /\ Len(mc) = 3
            /\ \A m \in TransportMode :
                  Cardinality({i \in idx : mc[i].transport_mode = m}) = 1
            /\ Cardinality({i \in idx : mc[i].is_shortest}) = 1
            /\ Cardinality({i \in idx : mc[i].is_most_efficient}) = 1
            /\ \A i \in idx :
                  /\ mc[i].is_shortest =>
                        /\ mc[i].is_viable
                        /\ mc[i].transport_mode = result.shortest_route.transport_mode
                  /\ mc[i].is_most_efficient =>
                        /\ mc[i].is_viable
                        /\ mc[i].transport_mode = result.efficient_route.transport_mode
                  /\ LET r == RouteOf(mc[i].transport_mode)
                     IN  /\ mc[i].is_viable = r.is_viable
                         /\ mc[i].distance_km = r.total_distance_km
                         /\ mc[i].duration_hours = r.total_duration_hours
                         /\ mc[i].emission_kg_co2 = r.total_emission_kg_co2
                         /\ mc[i].not_viable_reason = r.not_viable_reason

\* C6 witness: a returned comparison in which two viable routes tie on the
\* least total distance and the shortest and most efficient flags are on
\* different modes.
C6_Witness ==
    /\ pc = "done"
    /\ Cardinality(TiedModes("total_distance_km")) = 2
    /\ \E i \in 1..3 :
          /\ result.mode_comparison[i].is_shortest
          /\ ~result.mode_comparison[i].is_most_efficient

\* C7: when the origin airport is missing the air route is not viable with
\* the reason naming the origin's city, when only the destination airport is
\* missing with the reason naming the destination's city; the land route of
\* the call stays viable and the sea route is viable exactly when both of
\* its ports were found.
C7_NoAirportFound ==
    air_route # None =>
        /\ origin_airport = None =>
              /\ ~air_route.is_viable
              /\ air_route.not_viable_reason =
                    <<"No airport found near", request.origin_name[1]>>
        /\ (origin_airport # None /\ dest_airport = None) =>
              /\ ~air_route.is_viable
              /\ air_route.not_viable_reason =
                    <<"No airport found near", request.destination_name[1]>>
        /\ (origin_airport = None \/ dest_airport = None) =>
              /\ land_route.is_viable /\ Len(land_route.segments) = 1
              /\ sea_route # None =>
                    (sea_route.is_viable <=> (origin_port # None /\ dest_port # None))

\* C7 witness: a call returned with no airport on either side, the two
\* cities differing, and a viable sea route.
C7_Witness ==
    /\ pc = "done"
    /\ origin_airport = None /\ dest_airport = None
    /\ request.origin_name[1] # request.destination_name[1]
    /\ sea_route.is_viable

\* Great-circle distance between the two airports looked up.
FlightDistance == Abs(dest_airport.coordinates - origin_airport.coordinates)

\* C8: with both airports found the air route is not viable, the reason
\* saying the flight distance is too short, exactly when the airports are
\* less than 200 km apart; from 200 km on it is viable.
C8_MinimumFlightDistance ==
    (air_route # None /\ origin_airport # None /\ dest_airport # None) =>
        /\ FlightDistance < 200 * KmUnit =>
              /\ ~air_route.is_viable
              /\ Len(air_route.not_viable_reason) = 3
              /\ air_route.not_viable_reason[1] = "Flight distance ("
              /\ air_route.not_viable_reason[3] = "km) too short"
        /\ FlightDistance >= 200 * KmUnit =>
              /\ air_route.is_viable
              /\ air_route.segments[2].distance_km = FlightDistance

\* C8 witness: two different airports less than 200 km apart were found and
\* the air route is not viable.
C8_Witness ==
    /\ air_route # None /\ origin_airport # None /\ dest_airport # None
    /\ FlightDistance > 0 /\ FlightDistance < 200 * KmUnit
    /\ ~air_route.is_viable

\* C9: the sea route is viable whenever both ports were found, whatever their
\* distance; it is not viable only when a port is missing, the reason naming
\* the city of the first missing side.
C9_SeaViableWithBothPorts ==
    sea_route # None =>
        /\ (origin_port # None /\ dest_port # None) =>
              /\ sea_route.is_viable
              /\ sea_route.segments[2].distance_km =
                    (13 * Abs(dest_port.coordinates - origin_port.coordinates)) \div 10
        /\ ~sea_route.is_viable =>
              /\ origin_port = None \/ dest_port = None
              /\ sea_route.not_viable_reason =
                    <<"No port found near",
                      IF origin_port = None THEN request.origin_name[1]
                      ELSE request.destination_name[1]>>

\* C9 witness: the same port was found for both ends and the sea route is
\* viable with a shipping distance of 0.
C9_Witness ==
    /\ sea_route # None /\ origin_port # None /\ dest_port # None
    /\ origin_port.coordinates = dest_port.coordinates
    /\ sea_route.is_viable
    /\ sea_route.segments[2].distance_km = 0

\* The segments and waypoints of a viable hub route: road, main leg, road,
\* chained from the origin over the two hubs to the destination.
ThreeLegs(r, mode, type, origin_hub, dest_hub) ==
    /\ Len(r.segments) = 3
    /\ r.segments[1].mode = "land" /\ r.segments[2].mode = mode
    /\ r.segments[3].mode = "land"
    /\ r.segments[1].from_coordinates = request.origin
    /\ r.segments[1].to_coordinates = r.segments[2].from_coordinates
    /\ r.segments[2].to_coordinates = r.segments[3].from_coordinates
    /\ r.segments[3].to_coordinates = request.destination
    /\ r.segments[2].from_coordinates = origin_hub.coordinates
    /\ r.segments[2].to_coordinates = dest_hub.coordinates
    /\ r.waypoints = << [name |-> origin_hub.name, type |-> type,
                         coordinates |-> origin_hub.coordinates],
                        [name |-> dest_hub.name, type |-> type,
                         coordinates |-> dest_hub.coordinates] >>

\* C10: a viable air (sea) route has the three segments road, flight
\* (shipping), road, chained from the request's origin to its destination,
\* and the waypoints origin hub, destination hub of type airport (port); the
\* land route has one segment and no waypoints.
C10_SegmentsAndWaypoints ==
    /\ (air_route # None /\ air_route.is_viable) =>
          ThreeLegs(air_route, "air", "airport", origin_airport, dest_airport)
    /\ (sea_route # None /\ sea_route.is_viable) =>
          ThreeLegs(sea_route, "sea", "port", origin_port, dest_port)
    /\ land_route # None =>
          /\ Len(land_route.segments) = 1 /\ land_route.waypoints = << >>
          /\ land_route.segments[1].mode = "land"
          /\ land_route.segments[1].from_coordinates = request.origin
          /\ land_route.segments[1].to_coordinates = request.destination

\* C10 witness: a call returned a viable air and a viable sea route, each
\* over two different hubs.
C10_Witness ==
    /\ pc = "done"
    /\ air_route.is_viable /\ sea_route.is_viable
    /\ origin_airport.coordinates # dest_airport.coordinates
    /\ origin_port.coordinates # dest_port.coordinates

\* C11: the land route is one segment from the origin to the destination.
\* When the road provider was unavailable, the segment's distance is the
\* great-circle distance times 1.3, its duration that distance at 60 km/h and
\* its geometry has 21 points; when the provider returned a route, the
\* segment has the provider's distance, duration and geometry and no factor
\* is applied (distances and durations as stored, to 2 decimals).
C11_LandFallbackOrProvider ==
    land_route # None =>
        LET direct_distance == Abs(request.destination - request.origin)
            segment == land_route.segments[1]
        IN  /\ Len(land_route.segments) = 1
            /\ segment.mode = "land"
            /\ segment.from_coordinates = request.origin
            /\ segment.to_coordinates = request.destination
            /\ land_route.total_distance_km = segment.distance_km
            /\ land_route.total_duration_hours = segment.duration_hours
            /\ IF road_route = None
               THEN /\ segment.distance_km = RoundKm2((direct_distance * 13) \div 10)
                    /\ segment.duration_hours =
                          RoundHours2(direct_distance * ((13 * HourUnit) \div (10 * 60 * KmUnit)))
                    /\ Len(segment.geometry) = 21
                    /\ segment.geometry[1] = request.origin
                    /\ segment.geometry[21] = request.destination
               ELSE /\ segment.distance_km = RoundKm2(road_route.distance_km)
                    /\ segment.duration_hours = RoundHours2(road_route.duration_hours)
                    /\ segment.geometry = road_route.geometry

\* C11 witness: the provider was asked and was unavailable, and the land
\* route of two places 1009.99 km apart is 1312.99 km long.
C11_Witness ==
    /\ land_route # None
    /\ road_calls = 1
    /\ road_route = None
    /\ Abs(request.destination - request.origin) = 1009990
    /\ land_route.total_distance_km = 1312990
    /\ Len(land_route.segments[1].geometry) = 21

\* C12: the road-route adapter returns None and does not raise when the
\* access token is not configured, when the provider answers with a
\* non-success status, when the request fails at transport level or times
\* out, and when the answer names no usable route; the calling synthesis then
\* goes on with the fallback, so a call without a configured token ends with
\* an exception only for a negative weight.
C12_RoadRouteUnavailableNeverRaises ==
    /\ \A response \in RoadResponses(0, 0) :
          (\/ settings.mapbox_access_token = ""
           \/ response.kind \in {"request_error", "status"}
           \/ response.kind = "json" /\ (response.code # "Ok" \/ response.routes = << >>))
          => /\ get_road_route(settings, response).raised = "no"
             /\ get_road_route(settings, response).value = None
    /\ (pc = "failed" /\ settings.mapbox_access_token = "") => failure = "ValueError"

\* C13: a call with a negative weight fails with the ValueError of the input
\* validation before any directions or geocoding request is issued, and
\* returns no route (stated for settings that declare the token, where the
\* adapters can return).
C13_NegativeWeightRejectedFirst ==
    (/\ request # None /\ request.weight_kg < 0
     /\ "mapbox_access_token" \in settings.fields) =>
        /\ road_calls = 0
        /\ geocode_calls = 0
        /\ land_route = None /\ air_route = None /\ sea_route = None
        /\ result = None
        /\ pc = "failed" => failure = "ValueError"

\* The hub variable a lookup at position p returns into.
HubAt(p) ==
    CASE p = "air_origin" -> origin_airport [] p = "air_dest" -> dest_airport
      [] p = "sea_origin" -> origin_port [] p = "sea_dest" -> dest_port

\* The position after the lookup at position p.
AfterLookup(p) ==
    CASE p = "air_origin" -> "air_dest" [] p = "air_dest" -> "air_build"
      [] p = "sea_origin" -> "sea_dest" [] p = "sea_dest" -> "sea_build"

\* The step ends the lookup in progress and hands hub to the synthesis.
Returns(hub) ==
    /\ pc' = AfterLookup(pc)
    /\ \A p \in {"air_origin", "air_dest", "sea_origin", "sea_dest"} :
          p = pc => HubAt(p)' = hub

\* C14: in the airport resolver a curated airport closer than 100 km is
\* returned at once and the lookup issues no geocoding search; a search is
\* started or issued only when the nearest curated airport is absent or at
\* 100 km or more.
C14_StrongCuratedMatchSkipsSearch ==
    [][(pc \in {"air_origin", "air_dest"} =>
          LET known_airport == find_nearest_known_airport(LookupLocation)
              strong == /\ known_airport # None
                        /\ known_airport.distance_km < 100 * KmUnit
          IN  /\ (lookup.q = 0 /\ strong) =>
                    /\ Returns(known_airport)
                    /\ geocode_calls' = geocode_calls
                    /\ lookup'.q = 0
              /\ (lookup'.q > 0 \/ geocode_calls' > geocode_calls) => ~strong)
      ]_vars

\* C14 witness: with a configured token the origin airport, 40.01 km away in
\* the curated table, was returned without a search, and three searches were
\* issued for the destination, whose nearest curated airport is exactly
\* 100 km away.
C14_Witness ==
    /\ pc = "air_build"
    /\ settings.mapbox_access_token # ""
    /\ origin_airport # None /\ origin_airport.distance_km = 40010
    /\ request.destination = 1000000
    /\ find_nearest_known_airport(request.destination).distance_km = 100 * KmUnit
    /\ geocode_calls = 3

\* The nearer of two hubs, the first on equal distance; the one that exists
\* if only one does; None if neither does.
Nearer(first, second) ==
    IF first = None THEN second
    ELSE IF second = None THEN first
    ELSE IF second.distance_km < first.distance_km THEN second ELSE first

\* C15: when the searches of an airport lookup end without an early return,
\* the lookup returns the nearer of the nearest curated airport and the
\* nearest accepted geocoded airport within 200 km, the curated one on equal
\* distance, the one that exists if only one does, and None if neither does.
\* The geocoded candidate kept across the searches is the nearest accepted
\* one in range: a search that does not return early never keeps a candidate
\* farther than the one kept before or than an accepted result in range.
C15_CombineCuratedAndGeocoded ==
    /\ []((pc \in {"air_origin", "air_dest"} /\ lookup.q \in 1..3) =>
            /\ lookup.known = find_nearest_known_airport(LookupLocation)
            /\ \A response \in GeocodeResponses(AirportSearchFeatures) :
                response.kind = "json" =>
                  LET scan == ScanAirportResults(response.features, LookupLocation,
                                                 1, lookup.best)
                  IN  ~scan.returned =>
                        /\ lookup.best # None =>
                              /\ scan.best # None
                              /\ scan.best.distance_km <= lookup.best.distance_km
                        /\ \A i \in DOMAIN response.features :
                              LET feature == response.features[i]
                                  distance == Abs(feature.coordinates - LookupLocation)
                              IN  (/\ is_actual_airport(feature.name, feature.full_name)
                                   /\ distance <= 200 * KmUnit) =>
                                      /\ scan.best # None
                                      /\ scan.best.distance_km <= distance)
    /\ [][(pc \in {"air_origin", "air_dest"} /\ lookup.q = 4) =>
             Returns(Nearer(lookup.known, lookup.best))]_vars

\* C15 witness: the origin has a curated airport 150 km away and the lookup
\* returned the geocoded airport 50 km away, which is no early return.
C15_Witness ==
    /\ pc = "air_dest"
    /\ request.origin = 1050000
    /\ find_nearest_known_airport(request.origin) # None
    /\ find_nearest_known_airport(request.origin).distance_km = 150 * KmUnit
    /\ origin_airport # None
    /\ origin_airport.coordinates = 1100000
    /\ origin_airport.distance_km = 50 * KmUnit

IsCuratedAirport(hub) ==
    \E i \in DOMAIN KNOWN_AIRPORTS :
        /\ KNOWN_AIRPORTS[i].coordinates = hub.coordinates
        /\ KNOWN_AIRPORTS[i].name = hub.name

IsCuratedPort(hub) ==
    \E i \in DOMAIN KNOWN_PORTS :
        /\ KNOWN_PORTS[i].coordinates = hub.coordinates
        /\ KNOWN_PORTS[i].name = hub.name

AirportInRange(hub, location) ==
    hub # None =>
        /\ Abs(hub.coordinates - location) <= 200 * KmUnit
        /\ hub.distance_km = Abs(hub.coordinates - location)

PortInRange(hub, location) ==
    hub # None =>
        /\ hub.distance_km = Abs(hub.coordinates - location)
        /\ \/ Abs(hub.coordinates - location) <= 200 * KmUnit
           \/ /\ IsCuratedPort(hub)
              /\ Abs(hub.coordinates - location) <= 1500 * KmUnit

\* C16: a returned airport lies within 200 km of the place it was looked up
\* for; a returned port lies within 200 km, or it is a curated port within
\* 1500 km; a geocoded candidate is only kept within 200 km.
C16_HubsWithinRadius ==
    /\ AirportInRange(origin_airport, request.origin)
    /\ AirportInRange(dest_airport, request.destination)
    /\ PortInRange(origin_port, request.origin)
    /\ PortInRange(dest_port, request.destination)
    /\ (pc \in {"air_origin", "air_dest", "sea_origin", "sea_dest"}
          /\ lookup.best # None) =>
          Abs(lookup.best.coordinates - LookupLocation) <= 200 * KmUnit

\* C16 witness: the origin port is a geocoded port exactly 200 km away, the
\* destination port the curated port 1050 km away, and both airports were
\* found, one of them geocoded.
C16_Witness ==
    /\ pc = "sea_build"
    /\ origin_port # None /\ ~IsCuratedPort(origin_port)
    /\ origin_port.distance_km = 200 * KmUnit
    /\ dest_port # None /\ IsCuratedPort(dest_port)
    /\ dest_port.distance_km = 1050 * KmUnit
    /\ origin_airport # None /\ ~IsCuratedAirport(origin_airport)
    /\ dest_airport # None

\* C17: the port resolver returns the nearest curated port within 200 km
\* without a search if there is one; otherwise it runs its three searches
\* and returns the geocoded port kept from them if there is one; otherwise
\* it returns the nearest curated port within 1500 km, or None if there is
\* none.  The 1500 km lookup decides only after the other two sources
\* yielded nothing.
C17_PortSourcesInOrder ==
    [][(pc \in {"sea_origin", "sea_dest"} =>
          LET nearby_port == find_nearest_known_port(LookupLocation, 200 * KmUnit)
              inland_port == find_nearest_known_port(LookupLocation, 1500 * KmUnit)
          IN  /\ (lookup.q = 0 /\ nearby_port # None) =>
                    /\ Returns(nearby_port)
                    /\ geocode_calls' = geocode_calls
              /\ (lookup.q = 0 /\ nearby_port = None) =>
                    /\ pc' = pc
                    /\ lookup'.q = 1 /\ lookup'.best = None
              /\ lookup.q \in 1..3 => pc' \in {pc, "failed"}
              /\ (lookup.q = 4 /\ lookup.best # None) => Returns(lookup.best)
              /\ (lookup.q = 4 /\ lookup.best = None) => Returns(inland_port)
              /\ \A p \in {"sea_origin", "sea_dest"} :
                    (/\ p = pc /\ pc' = AfterLookup(p)
                     /\ HubAt(p)' # None
                     /\ HubAt(p)'.distance_km > 200 * KmUnit) =>
                        /\ lookup.q = 4 /\ lookup.best = None /\ nearby_port = None)
      ]_vars

\* C17 witness: with a configured token the three searches for the origin
\* kept a geocoded port although a curated port lies within 1500 km, and the
\* geocoded port was returned.
C17_Witness ==
    /\ pc = "sea_dest"
    /\ settings.mapbox_access_token # ""
    /\ origin_port # None /\ ~IsCuratedPort(origin_port)
    /\ find_nearest_known_port(request.origin, 200 * KmUnit) = None
    /\ find_nearest_known_port(request.origin, 1500 * KmUnit) # None

AcceptedAirport(feature) == is_actual_airport(feature.name, feature.full_name)
AcceptedPort(feature) == is_actual_port(feature.name, feature.full_name)

\* A geocoded hub carries a name that matches no exclusion pattern and some
\* acceptance pattern.
ProperAirport(hub) ==
    (hub # None /\ ~IsCuratedAirport(hub)) =>
        /\ ~airport_excluded(LowerAll(hub.name) \o LowerAll(hub.full_name))
        /\ airport_accepted(LowerAll(hub.name)) \/ airport_accepted(LowerAll(hub.full_name))

ProperPort(hub) ==
    (hub # None /\ ~IsCuratedPort(hub)) =>
        /\ ~port_excluded(LowerAll(hub.name) \o LowerAll(hub.full_name))
        /\ port_accepted(LowerAll(hub.name)) \/ port_accepted(LowerAll(hub.full_name))

\* C18: a geocoding result is accepted exactly when its name and full name
\* match no exclusion pattern and one of them matches an acceptance pattern;
\* no returned or kept hub is a rejected result, and dropping the rejected
\* results from an answer does not change what a search keeps or returns.
C18_ExcludedResultsRejected ==
    /\ \A f \in GeoFeatures :
          LET combined == LowerAll(f.name) \o LowerAll(f.full_name)
          IN  /\ is_actual_airport(f.name, f.full_name) <=>
                    /\ ~airport_excluded(combined)
                    /\ \/ airport_accepted(LowerAll(f.name))
                       \/ airport_accepted(LowerAll(f.full_name))
              /\ is_actual_port(f.name, f.full_name) <=>
                    /\ ~port_excluded(combined)
                    /\ \/ port_accepted(LowerAll(f.name))
                       \/ port_accepted(LowerAll(f.full_name))
    /\ ProperAirport(origin_airport) /\ ProperAirport(dest_airport)
    /\ ProperPort(origin_port) /\ ProperPort(dest_port)
    /\ (pc \in {"air_origin", "air_dest"} /\ lookup.q \in 1..4) =>
          /\ ProperAirport(lookup.best)
          /\ lookup.q < 4 =>
                \A response \in GeocodeResponses(AirportSearchFeatures) :
                  response.kind = "json" =>
                    ScanAirportResults(response.features, LookupLocation, 1, lookup.best)
                    = ScanAirportResults(SelectSeq(response.features, AcceptedAirport),
                                         LookupLocation, 1, lookup.best)
    /\ (pc \in {"sea_origin", "sea_dest"} /\ lookup.q \in 1..4) =>
          /\ ProperPort(lookup.best)
          /\ lookup.q < 4 =>
                \A response \in GeocodeResponses(PortSearchFeatures) :
                  response.kind = "json" =>
                    ScanPortResults(response.features, LookupLocation, 1, lookup.best)
                    = ScanPortResults(SelectSeq(response.features, AcceptedPort),
                                      LookupLocation, 1, lookup.best)

\* C18 witness: the searches for a place returned "Airport Road" at the place
\* itself, whose full name names an international airport; it was skipped
\* and the candidate kept is an airport 50 km away.
C18_Witness ==
    /\ pc \in {"air_origin", "air_dest"}
    /\ lookup.q = 4
    /\ lookup.excluded
    /\ LookupLocation = 1050000
    /\ lookup.best # None /\ lookup.best.distance_km = 50 * KmUnit

\* C19: the selection and the mode comparison exist only in a call whose
\* land, air and sea computations have all returned, and they are built from
\* exactly these three routes; a call that ended with an exception returned
\* nothing.
C19_AggregateAfterAllThree ==
    /\ (pc = "aggregate" \/ result # None) =>
          land_route # None /\ air_route # None /\ sea_route # None
    /\ result # None =>
          /\ pc = "done"
          /\ result.all_routes = <<land_route, air_route, sea_route>>
          /\ Len(result.mode_comparison) = 3
          /\ {result.mode_comparison[i].transport_mode : i \in 1..3} = TransportMode
    /\ pc = "failed" => result = None

\* C19 witness: a call returned with three viable routes.
C19_Witness ==
    /\ pc = "done"
    /\ result # None
    /\ land_route.is_viable /\ air_route.is_viable /\ sea_route.is_viable

TransportModes == <<"land", "sea", "air">>

\* Mutant of StableInsert: an item goes before the items of equal emission.
StableInsert_before_equal(sorted, item) ==
    LET k == Cardinality({i \in 1..Len(sorted) :
                  sorted[i].emission_kg_co2 < item.emission_kg_co2})
    IN  SubSeq(sorted, 1, k) \o <<item>> \o SubSeq(sorted, k + 1, Len(sorted))

\* One step of the stable sorted(): item goes after the items whose
\* emission is not larger.
StableInsert(sorted, item) ==
    LET k == Cardinality({i \in 1..Len(sorted) :
                  sorted[i].emission_kg_co2 <= item.emission_kg_co2})
    IN  SubSeq(sorted, 1, k) \o <<item>> \o SubSeq(sorted, k + 1, Len(sorted))

\* sorted(results.items(), key=lambda x: x[1].emission_kg_co2) over the
\* first i results.
RECURSIVE sorted_by_emission(_, _)
sorted_by_emission(results, i) ==
    IF i = 0 THEN << >>
    ELSE StableInsert(sorted_by_emission(results, i - 1), results[i])

\* EmissionService.compare_transport_modes: the EmissionComparisonResult, or
\* the ValueError of the first calculate_emission.
compare_transport_modes(distance_km, weight_kg) ==
    LET results == [i \in 1..Len(TransportModes) |->
                       calculate_emission(distance_km, weight_kg, TransportModes[i])]
        sorted == sorted_by_emission(results, Len(results))
    IN  IF results[1].raised # "no" THEN results[1]
        ELSE [raised |-> "no", land |-> results[1], sea |-> results[2],
              air |-> results[3],
              most_efficient |-> sorted[1].transport_mode,
              least_efficient |-> sorted[Len(sorted)].transport_mode]

\* Factor tables an EmissionService is constructed with: the defaults, one
\* factor for every mode, and the largest factor shared by land and sea.
FactorsValues ==
    {EmissionFactors,
     [m \in TransportMode |-> 62],
     [m \in TransportMode |-> CASE m = "air" -> 16 [] OTHER -> 602]}

\* Arguments of the direct calls: distances in metres (0.1 km .. 3 km),
\* weights in kg, end points of an interpolation.
Distances == {-1000, 0, 100, 1000, 2000, 3000}
CargoWeights == {-1, 0, 1, 2, 3, 500}
Points == {l.coordinates : l \in Locations}

\* Largest num_points of an interpolation in the model (the code passes 20,
\* 30 and 50).
MaxPoints == 3

\* The RouteService serves no call.
RouteServiceIdle ==
    /\ pc = "idle"
    /\ request = None
    /\ land_route = None /\ air_route = None /\ sea_route = None
    /\ origin_airport = None /\ dest_airport = None
    /\ origin_port = None /\ dest_port = None
    /\ lookup = NoLookup
    /\ result = None
    /\ failure = "no"
    /\ road_calls = 0
    /\ geocode_calls = 0
    /\ road_route = None
    /\ airport_results = None

route_vars == <<settings, pc, request, land_route, air_route, sea_route, origin_airport, dest_airport, origin_port, dest_port, lookup, result, failure, road_calls, geocode_calls, road_route, airport_results>>

CalculationInit ==
    /\ settings = [fields |-> {}, mapbox_access_token |-> ""]
    /\ RouteServiceIdle
    /\ known_airports = KNOWN_AIRPORTS
    /\ known_ports = KNOWN_PORTS
    /\ average_speeds = AVERAGE_SPEEDS
    /\ emission_factors \in FactorsValues
    /\ ServicesIdle

\* calculate_emission is called.
CalculateEmission ==
    /\ \E distance_km \in Distances, weight_kg \in CargoWeights, mode \in TransportMode :
          call' = [op |-> "calculate_emission", distance_km |-> distance_km,
                   weight_kg |-> weight_kg, transport_mode |-> mode,
                   response |-> calculate_emission(distance_km, weight_kg, mode)]
    /\ UNCHANGED <<route_vars, shared, searches, object_ids, clock, users, tasks>>

\* compare_transport_modes is called.
CompareTransportModes ==
    /\ \E distance_km \in Distances, weight_kg \in CargoWeights :
          call' = [op |-> "compare_transport_modes", distance_km |-> distance_km,
                   weight_kg |-> weight_kg,
                   response |-> compare_transport_modes(distance_km, weight_kg)]
    /\ UNCHANGED <<route_vars, shared, searches, object_ids, clock, users, tasks>>

\* _interpolate_great_circle is called.
InterpolateGreatCircle ==
    /\ \E origin \in Points, destination \in Points, num_points \in 1..MaxPoints :
          call' = [op |-> "interpolate_great_circle", origin |-> origin,
                   destination |-> destination, num_points |-> num_points,
                   response |-> interpolate_great_circle(origin, destination, num_points)]
    /\ UNCHANGED <<route_vars, shared, searches, object_ids, clock, users, tasks>>

CalculationNext ==
    \/ CalculateEmission
    \/ CompareTransportModes
    \/ InterpolateGreatCircle

CalculationSpec == CalculationInit /\ [][CalculationNext]_vars

\* The calculate_emission call observed.
Calculated == call # None /\ call.op = "calculate_emission"

\* Exact emission of the call in 1e-9 kg: metres x kg x factor in thousandths.
ExactEmission == call.distance_km * call.weight_kg * get_factor(call.transport_mode)

\* C21 as stated: a negative distance or weight raises the ValueError, and
\* otherwise the emission returned is exactly distance x (weight / 1000) x
\* factor, with the factor used.
C21_EmissionIsExactProduct ==
    Calculated =>
        IF call.distance_km < 0 \/ call.weight_kg < 0
        THEN call.response.raised = "ValueError"
        ELSE /\ call.response.raised = "no"
             /\ call.response.emission_factor_used = get_factor(call.transport_mode)
             /\ call.response.emission_kg_co2 * 100000 = ExactEmission

\* C21 as amended: a negative distance or weight raises the ValueError for
\* every mode; otherwise the emission returned is distance x (weight / 1000)
\* x factor rounded to 4 decimals (at most 0.00005 kg from the product, the
\* product itself when that is a multiple of 0.0001 kg), with the factor
\* used; it is non-negative, and additive in distance and in weight up to
\* 0.0001 kg.
C21_EmissionIsRoundedProduct ==
    Calculated =>
        IF call.distance_km < 0 \/ call.weight_kg < 0
        THEN call.response.raised = "ValueError"
        ELSE /\ call.response.raised = "no"
             /\ call.response.transport_mode = call.transport_mode
             /\ call.response.emission_factor_used = get_factor(call.transport_mode)
             /\ Abs(call.response.emission_kg_co2 * 100000 - ExactEmission) <= 50000
             /\ call.response.emission_kg_co2 >= 0
             /\ \A d \in {x \in Distances : x >= 0} :
                   Abs(calculate_emission(call.distance_km + d, call.weight_kg, call.transport_mode).emission_kg_co2
                       - call.response.emission_kg_co2
                       - calculate_emission(d, call.weight_kg, call.transport_mode).emission_kg_co2) <= 1
             /\ \A w \in {x \in CargoWeights : x >= 0} :
                   Abs(calculate_emission(call.distance_km, call.weight_kg + w, call.transport_mode).emission_kg_co2
                       - call.response.emission_kg_co2
                       - calculate_emission(call.distance_km, w, call.transport_mode).emission_kg_co2) <= 1

\* A calculation whose product is not a multiple of 0.0001 kg was answered
\* with a positive emission.
C21_Witness ==
    /\ Calculated
    /\ call.response.raised = "no"
    /\ call.distance_km > 0 /\ call.weight_kg > 0
    /\ ExactEmission % 100000 # 0
    /\ call.response.emission_kg_co2 > 0

\* The compare_transport_modes call observed, answered with a comparison.
Compared ==
    call # None /\ call.op = "compare_transport_modes" /\ call.response.raised = "no"

\* Emission reported for mode m by the comparison.
EmissionOf(m) == call.response[m].emission_kg_co2

\* Position of mode m in the order land, sea, air.
ModeIndex(m) == CHOOSE i \in 1..Len(TransportModes) : TransportModes[i] = m

\* most_efficient is the first mode in the order land, sea, air with the
\* minimum emission, least_efficient the last one with the maximum emission.
MinMaxInStableOrder ==
    LET most == call.response.most_efficient
        least == call.response.least_efficient
    IN  /\ \A m \in TransportMode :
               /\ EmissionOf(most) <= EmissionOf(m)
               /\ EmissionOf(m) = EmissionOf(most) => ModeIndex(most) <= ModeIndex(m)
               /\ EmissionOf(least) >= EmissionOf(m)
               /\ EmissionOf(m) = EmissionOf(least) => ModeIndex(least) >= ModeIndex(m)
        /\ (\A m \in TransportMode : EmissionOf(m) = EmissionOf("land")) =>
               most = "land" /\ least = "air"

DefaultsAndPositive ==
    emission_factors = EmissionFactors /\ call.distance_km > 0 /\ call.weight_kg > 0

\* C22 as stated: most_efficient has the minimum and least_efficient the
\* maximum emission, ties resolved by the stable order land, sea, air, and
\* with the default factors and positive distance and weight most_efficient
\* is sea and least_efficient is air.
C22_SeaMostEfficientWhenPositive ==
    Compared =>
        /\ MinMaxInStableOrder
        /\ DefaultsAndPositive =>
               call.response.most_efficient = "sea" /\ call.response.least_efficient = "air"

\* C22 as amended: most_efficient has the minimum and least_efficient the
\* maximum of the emissions reported (rounded to 4 decimals), ties resolved
\* by the stable order land, sea, air; with the default factors and positive
\* distance and weight least_efficient is air, and most_efficient is sea
\* unless the land emission rounds to 0, where land and sea tie and
\* most_efficient is land.
C22_MostAndLeastEfficient ==
    Compared =>
        /\ MinMaxInStableOrder
        /\ DefaultsAndPositive =>
               /\ call.response.least_efficient = "air"
               /\ call.response.most_efficient =
                      IF EmissionOf("land") = 0 THEN "land" ELSE "sea"
               /\ EmissionOf("land") = 0 => EmissionOf("sea") = 0

\* A comparison for a positive distance and weight under the default
\* factors where land and sea both round to 0 and air does not.
C22_Witness ==
    /\ Compared
    /\ DefaultsAndPositive
    /\ EmissionOf("land") = 0 /\ EmissionOf("air") > 0
    /\ call.response.most_efficient = "land"

\* The _interpolate_great_circle call observed.
Interpolated == call # None /\ call.op = "interpolate_great_circle"

Some(v) == [value |-> v]

\* str(current_user.id) of the callers.
UserIds == {"u1", "u2"}

\* Most searches ever inserted, largest page asked for.
MaxSearches == 2
MaxPage == 2
PageSizes == {1, 2}

\* A search id as the caller passes it: the 24 hex digits of an ObjectId, or
\* some other text.  ObjectId(search_id) parses the first and raises on the
\* second; str(object_id) is the way back.
SearchIds == {[hex |-> n] : n \in 1..MaxSearches} \cup {[text |-> "not-an-id"]}

ObjectId(search_id) ==
    IF "hex" \in DOMAIN search_id
    THEN [raised |-> "no", value |-> [oid |-> search_id.hex]]
    ELSE [raised |-> "InvalidId", value |-> None]

str_object_id(object_id) == [hex |-> object_id.oid]

\* A RouteInfo as compute_all_routes builds it, geometry included.
StoredRoute(mode, route_type, distance_km, emission_kg_co2) ==
    [distance_km |-> distance_km, duration_hours |-> TravelTime(distance_km, mode),
     geometry |-> <<40010, distance_km>>, emission_kg_co2 |-> emission_kg_co2,
     route_type |-> route_type, transport_mode |-> mode]

\* SearchCreate objects a caller passes to create_search.
SearchCreates ==
    {[origin_name |-> <<"Alpha">>, origin_coordinates |-> 40010,
      destination_name |-> <<"Delta", " India">>, destination_coordinates |-> 1050000,
      weight_kg |-> 1,
      shortest_route |-> StoredRoute("land", "shortest", 1165000, 722),
      efficient_route |-> StoredRoute("sea", "efficient", 1313000, 210),
      mode_comparison |-> <<[transport_mode |-> "land", is_shortest |-> TRUE,
                             is_most_efficient |-> FALSE]>>],
     [origin_name |-> <<"Beta">>, origin_coordinates |-> 190000,
      destination_name |-> <<"Gamma">>, destination_coordinates |-> 1000000,
      weight_kg |-> 2,
      shortest_route |-> StoredRoute("air", "shortest", 960000, 11558),
      efficient_route |-> StoredRoute("land", "efficient", 1053000, 1306),
      mode_comparison |-> << >>]}

\* Mutant of serialize_search: the geometry of the routes is stored.
serialize_search_with_geometry(search, user_id, now) ==
    [user_id |-> user_id,
     origin_name |-> search.origin_name,
     origin_coordinates |-> search.origin_coordinates,
     destination_name |-> search.destination_name,
     destination_coordinates |-> search.destination_coordinates,
     weight_kg |-> search.weight_kg,
     shortest_route |-> search.shortest_route,
     efficient_route |-> search.efficient_route,
     mode_comparison |-> search.mode_comparison,
     created_at |-> now]

\* SearchService._serialize_search: the document to insert; the routes are
\* dumped to new dicts whose geometry is replaced by [].
serialize_search(search, user_id, now) ==
    [user_id |-> user_id,
     origin_name |-> search.origin_name,
     origin_coordinates |-> search.origin_coordinates,
     destination_name |-> search.destination_name,
     destination_coordinates |-> search.destination_coordinates,
     weight_kg |-> search.weight_kg,
     shortest_route |-> [search.shortest_route EXCEPT !.geometry = << >>],
     efficient_route |-> [search.efficient_route EXCEPT !.geometry = << >>],
     mode_comparison |-> search.mode_comparison,
     created_at |-> now]

\* The SearchCreate object after _serialize_search: model_dump() builds new
\* dicts, the assignments go to those.
search_after_serialize(search) == search

\* doc["_id"] = result.inserted_id
WithId(doc, object_id) ==
    [f \in DOMAIN doc \cup {"_id"} |-> IF f = "_id" THEN object_id ELSE doc[f]]

\* The projection of get_user_searches: the routes without their geometry.
WithoutGeometry(route) == [f \in DOMAIN route \ {"geometry"} |-> route[f]]

project(doc) ==
    [doc EXCEPT !.shortest_route = WithoutGeometry(@),
                !.efficient_route = WithoutGeometry(@)]

\* RouteInfo(**data) after the geometry default of _deserialize_search.
EnsureGeometry(route) ==
    IF "geometry" \in DOMAIN route THEN route
    ELSE [f \in DOMAIN route \cup {"geometry"} |->
             IF f = "geometry" THEN << >> ELSE route[f]]

\* SearchService._deserialize_search: the SearchResponse of a document.
deserialize_search(doc) ==
    [id |-> str_object_id(doc._id),
     origin_name |-> doc.origin_name,
     origin_coordinates |-> doc.origin_coordinates,
     destination_name |-> doc.destination_name,
     destination_coordinates |-> doc.destination_coordinates,
     weight_kg |-> doc.weight_kg,
     shortest_route |-> EnsureGeometry(doc.shortest_route),
     efficient_route |-> EnsureGeometry(doc.efficient_route),
     mode_comparison |-> doc.mode_comparison,
     created_at |-> doc.created_at]

\* SearchFilters objects a caller passes to get_user_searches (or None).
NoFilters ==
    [shortest_mode |-> None, efficient_mode |-> None, origin_name |-> None,
     destination_name |-> None, date_from |-> None, date_to |-> None]

FiltersValues ==
    {None,
     [NoFilters EXCEPT !.shortest_mode = Some("land")],
     [NoFilters EXCEPT !.efficient_mode = Some("land")],
     [NoFilters EXCEPT !.origin_name = Some("alpha")],
     [NoFilters EXCEPT !.date_from = Some(1), !.date_to = Some(1)]}

\* SearchFilters(**kwargs): pydantic keeps the declared fields and ignores
\* the other keyword arguments.
SearchFilters(kwargs) ==
    [f \in DOMAIN NoFilters |-> IF f \in DOMAIN kwargs THEN kwargs[f] ELSE None]

\* The query dict of get_user_searches.
build_query(user_id, filters) ==
    [f \in DOMAIN NoFilters \cup {"user_id"} |->
        IF f = "user_id" THEN user_id
        ELSE IF filters # None THEN filters[f] ELSE None]

\* {"$regex": pattern, "$options": "i"} on a name.
regex_search(pattern, name) == HasWord(LowerAll(name), {Lower(pattern)})

\* A document satisfies the query of get_user_searches.
matches(doc, query) ==
    /\ doc.user_id = query.user_id
    /\ query.shortest_mode # None =>
           doc.shortest_route.transport_mode = query.shortest_mode.value
    /\ query.efficient_mode # None =>
           doc.efficient_route.transport_mode = query.efficient_mode.value
    /\ query.origin_name # None => regex_search(query.origin_name.value, doc.origin_name)
    /\ query.destination_name # None =>
           regex_search(query.destination_name.value, doc.destination_name)
    /\ query.date_from # None => doc.created_at >= query.date_from.value
    /\ query.date_to # None => doc.created_at <= query.date_to.value

\* Positions of the documents a query selects.
Selected(query) == {i \in DOMAIN searches : matches(searches[i], query)}

count_documents(query) == Cardinality(Selected(query))

\* find(query).sort("created_at", -1): the orders the cursor may deliver the
\* selected documents in; documents of equal created_at come in any order.
sorted_cursors(query) ==
    LET n == Cardinality(Selected(query))
    IN  {c \in [1..n -> Selected(query)] :
            /\ \A i, j \in 1..n : i # j => c[i] # c[j]
            /\ \A i \in 1..(n - 1) :
                   searches[c[i]].created_at >= searches[c[i + 1]].created_at}

\* Mutant of skip_count: the pages are counted from 0.
skip_count_from_next_page(page, page_size) == page * page_size

\* skip = (page - 1) * page_size
skip_count(page, page_size) == (page - 1) * page_size

\* cursor.skip(skip).limit(page_size)
skip_limit(cursor, skip, limit) ==
    IF skip >= Len(cursor) THEN << >>
    ELSE SubSeq(cursor, skip + 1,
                IF skip + limit < Len(cursor) THEN skip + limit ELSE Len(cursor))

\* math.ceil(total / page_size) if total > 0 else 1
total_pages(total, page_size) ==
    IF total > 0
    THEN (total \div page_size) + (IF total % page_size = 0 THEN 0 ELSE 1)
    ELSE 1

\* Mutant of id_query: {"_id": object_id} without the user_id.
id_query_without_user(doc, object_id, user_id) == doc._id = object_id

\* {"_id": object_id, "user_id": user_id}
id_query(doc, object_id, user_id) == doc._id = object_id /\ doc.user_id = user_id

\* Positions of the documents an id query selects.
Found(object_id, user_id) ==
    {i \in DOMAIN searches : id_query(searches[i], object_id, user_id)}

\* SearchService.get_search_by_id.
get_search_by_id(search_id, user_id) ==
    LET object_id == ObjectId(search_id)
    IN  IF object_id.raised # "no"
        THEN [raised |-> "SearchNotFoundError", message |-> "Invalid search ID"]
        ELSE IF Found(object_id.value, user_id) = {}
        THEN [raised |-> "SearchNotFoundError", message |-> "Search not found"]
        ELSE [raised |-> "no",
              value |-> deserialize_search(
                  searches[CHOOSE i \in Found(object_id.value, user_id) : TRUE])]

\* The sequence without its i-th element.
Remove(seq, i) == SubSeq(seq, 1, i - 1) \o SubSeq(seq, i + 1, Len(seq))

\* SearchService.delete_search: what it returns or raises, and the
\* collection after delete_one.
delete_search(search_id, user_id) ==
    LET object_id == ObjectId(search_id)
    IN  IF object_id.raised # "no"
        THEN [response |-> [raised |-> "SearchNotFoundError", message |-> "Invalid search ID"],
              collection |-> searches]
        ELSE IF Found(object_id.value, user_id) = {}
        THEN [response |-> [raised |-> "SearchNotFoundError", message |-> "Search not found"],
              collection |-> searches]
        ELSE [response |-> [raised |-> "no", returned |-> TRUE],
              collection |-> Remove(searches,
                                    CHOOSE i \in Found(object_id.value, user_id) : TRUE)]

\* delete_many({"user_id": user_id}) of delete_all_user_searches.
delete_many(user_id) ==
    [deleted_count |-> Cardinality({i \in DOMAIN searches : searches[i].user_id = user_id}),
     collection |-> SelectSeq(searches, LAMBDA doc : doc.user_id # user_id)]

\* Attributes of a RouteService object that are callable.
RouteServiceAttributes ==
    {"haversine_distance", "_interpolate_great_circle", "_geocode_search",
     "_geocode_search_with_country", "_is_actual_airport",
     "_find_nearest_known_airport", "_find_nearest_airport", "_is_actual_port",
     "_find_nearest_known_port", "_find_nearest_port", "_get_road_route",
     "_compute_land_route", "_compute_air_route", "_compute_sea_route",
     "compute_all_routes"}

\* A get_user_searches call has counted and not yet fetched.
Pending == call # None /\ call.op = "get_user_searches" /\ call.phase = "counted"

\* The call that returns is the one observed, unless a listing is between
\* its queries: then the call is a concurrent one, of which the listing
\* only records whether it modified the history of the listing's user.
Observed(record, user_id, modifies) ==
    call' = IF Pending
            THEN [call EXCEPT !.modified = @ \/ (modifies /\ user_id = call.user_id)]
            ELSE record

SearchInit ==
    /\ settings = [fields |-> {}, mapbox_access_token |-> ""]
    /\ RouteServiceIdle
    /\ known_airports = KNOWN_AIRPORTS
    /\ known_ports = KNOWN_PORTS
    /\ average_speeds = AVERAGE_SPEEDS
    /\ emission_factors = EmissionFactors
    /\ ServicesIdle

\* SearchService.create_search.
CreateSearch ==
    /\ object_ids < MaxSearches
    /\ \E user_id \in UserIds, search \in SearchCreates, now \in {clock, clock + 1} :
          LET doc == WithId(serialize_search(search, user_id, now),
                            [oid |-> object_ids + 1])
          IN  /\ searches' = Append(searches, doc)
              /\ object_ids' = object_ids + 1
              /\ clock' = now
              /\ Observed([op |-> "create_search", user_id |-> user_id,
                           search |-> search,
                           search_after |-> search_after_serialize(search),
                           response |-> deserialize_search(doc)], user_id, TRUE)
    /\ UNCHANGED <<route_vars, shared, users, tasks>>

\* SearchService.get_search_by_id.
GetSearchById ==
    /\ ~Pending
    /\ \E user_id \in UserIds, search_id \in SearchIds :
          call' = [op |-> "get_search_by_id", user_id |-> user_id,
                   search_id |-> search_id,
                   response |-> get_search_by_id(search_id, user_id)]
    /\ UNCHANGED <<route_vars, shared, searches, object_ids, clock, users, tasks>>

\* SearchService.delete_search.
DeleteSearch ==
    /\ \E user_id \in UserIds, search_id \in SearchIds :
          LET deleted == delete_search(search_id, user_id)
          IN  /\ searches' = deleted.collection
              /\ Observed([op |-> "delete_search", user_id |-> user_id,
                           search_id |-> search_id, response |-> deleted.response],
                          user_id, deleted.response.raised = "no")
    /\ UNCHANGED <<route_vars, shared, object_ids, clock, users, tasks>>

\* SearchService.delete_all_user_searches.
DeleteAllUserSearches ==
    /\ \E user_id \in UserIds :
          LET deleted == delete_many(user_id)
          IN  /\ searches' = deleted.collection
              /\ Observed([op |-> "delete_all_user_searches", user_id |-> user_id,
                           response |-> deleted.deleted_count],
                          user_id, deleted.deleted_count > 0)
    /\ UNCHANGED <<route_vars, shared, object_ids, clock, users, tasks>>

\* get_user_searches up to its count_documents: the call as observed between
\* the two queries.  transport_mode is the filter the endpoint was asked
\* for, None when the service is called directly.  page and page_size are
\* not read before the count and are drawn where they are first used.
Counted(user_id, filters, transport_mode) ==
    LET query == build_query(user_id, filters)
    IN  [op |-> "get_user_searches", phase |-> "counted", user_id |-> user_id,
         filters |-> filters, transport_mode |-> transport_mode, query |-> query,
         total |-> count_documents(query), modified |-> FALSE]

\* SearchService.get_user_searches is called and counts.
GetUserSearchesCount ==
    /\ ~Pending
    /\ \E user_id \in UserIds, filters \in FiltersValues :
          call' = Counted(user_id, filters, None)
    /\ UNCHANGED <<route_vars, shared, searches, object_ids, clock, users, tasks>>

\* The endpoint get_searches (GET /searches): it builds the SearchFilters
\* and calls get_user_searches, which counts.
GetSearches ==
    /\ ~Pending
    /\ \E current_user \in UserIds, transport_mode \in {None, Some("air")} :
          call' = Counted(current_user,
                          SearchFilters([transport_mode |-> transport_mode,
                                         origin_name |-> None,
                                         destination_name |-> None,
                                         date_from |-> None, date_to |-> None]),
                          transport_mode)
    /\ UNCHANGED <<route_vars, shared, searches, object_ids, clock, users, tasks>>

\* The returned SearchListResponse with the arguments of the call.
Listed(counted, page, page_size, docs) ==
    LET pages == total_pages(counted.total, page_size)
    IN  [op |-> "get_user_searches", phase |-> "returned",
         user_id |-> counted.user_id, filters |-> counted.filters,
         transport_mode |-> counted.transport_mode, query |-> counted.query,
         total |-> counted.total, modified |-> counted.modified,
         page |-> page, page_size |-> page_size,
         response |->
             [items |-> [k \in 1..Len(docs) |->
                            deserialize_search(project(searches[docs[k]]))],
              pagination |-> [total |-> counted.total, page |-> page,
                              page_size |-> page_size, total_pages |-> pages,
                              has_next |-> page < pages, has_prev |-> page > 1]]]

\* get_user_searches fetches its page and returns.
GetUserSearchesFind ==
    /\ Pending
    /\ \E page \in 1..MaxPage, page_size \in PageSizes, cursor \in sorted_cursors(call.query) :
          call' = Listed(call, page, page_size,
                         skip_limit(cursor, skip_count(page, page_size), page_size))
    /\ UNCHANGED <<route_vars, shared, searches, object_ids, clock, users, tasks>>

\* The endpoint create_search (POST /searches): its first statement calls
\* route_service.compute_routes, which RouteService does not define, so the
\* attribute lookup raises and nothing after it runs.
PostSearches ==
    /\ ~Pending
    /\ "compute_routes" \notin RouteServiceAttributes
    /\ \E current_user \in UserIds, origin \in Locations, destination \in Locations :
          /\ origin.name[1] = "Alpha"
          /\ destination.name[1] = "Delta"
          /\ call' = [op |-> "POST /searches", user_id |-> current_user,
                      origin_name |-> origin.name,
                      destination_name |-> destination.name,
                      response |-> [raised |-> "AttributeError",
                                    message |-> "compute_routes"]]
    /\ UNCHANGED <<route_vars, shared, searches, object_ids, clock, users, tasks>>

SearchNext ==
    \/ CreateSearch
    \/ GetSearchById
    \/ DeleteSearch
    \/ DeleteAllUserSearches
    \/ GetUserSearchesCount
    \/ GetSearches
    \/ GetUserSearchesFind
    \/ PostSearches

SearchSpec == SearchInit /\ [][SearchNext]_vars

\* A step of an airport lookup returns a geocoded candidate.
ReturnsGeocodedAirport ==
    /\ pc \in {"air_origin", "air_dest"}
    /\ lookup.q \in 1..4
    /\ pc' = AfterLookup(pc)
    /\ \A p \in {"air_origin", "air_dest"} :
          p = pc => HubAt(p)' # None /\ ~IsCuratedAirport(HubAt(p)')

\* The airport the step returns.
ReturnedAirport == IF pc = "air_origin" THEN origin_airport' ELSE dest_airport'

\* C28 as stated: whenever the airport resolver returns a geocoded
\* candidate, no accepted candidate within 200 km contained in the results
\* of the searches issued during that lookup is strictly nearer.
C28_NoNearerCandidate ==
    [][(ReturnsGeocodedAirport =>
          LET nearest == IF lookup.q = 4 THEN airport_results ELSE airport_results'
          IN  /\ nearest # None
              /\ nearest.distance_km >= ReturnedAirport.distance_km)
      ]_vars

\* C28: a geocoded candidate returned after the last search is the nearest
\* accepted candidate within 200 km that the results of the searches of the
\* lookup contained.  A geocoded candidate returned at once from the result
\* loop is nearer than 50 km and strictly nearer than every accepted
\* candidate within 200 km of the earlier answers; a nearer one can only be
\* in the answer the loop was in.
C28_NoNearerUnlessReturnedAtOnce ==
    [][(ReturnsGeocodedAirport =>
          /\ lookup.q = 4 =>
                /\ airport_results # None
                /\ airport_results.distance_km = ReturnedAirport.distance_km
          /\ lookup.q < 4 =>
                /\ ReturnedAirport.distance_km < 50 * KmUnit
                /\ airport_results # None =>
                      airport_results.distance_km > ReturnedAirport.distance_km
                /\ airport_results' # None
                /\ airport_results'.distance_km <= ReturnedAirport.distance_km)
      ]_vars

\* C28 witness: the airport 40 km from the origin was returned at once
\* although the same answer contained an airport 20 km away.
C28_Witness ==
    /\ pc = "air_dest"
    /\ origin_airport # None /\ ~IsCuratedAirport(origin_airport)
    /\ origin_airport.distance_km = 40 * KmUnit
    /\ airport_results = [distance_km |-> 20 * KmUnit]

\* A call of the search service or of its endpoints has returned.
Returned_from(op) == call # None /\ call.op = op

\* The fields of a RouteInfo other than its geometry.
RouteFields == {"distance_km", "duration_hours", "emission_kg_co2", "route_type", "transport_mode"}

\* The document whose id a SearchResponse carries.
DocumentsOf(response) == {i \in DOMAIN searches : searches[i]._id = ObjectId(response.id).value}

\* C23: the record written by create_search has an empty geometry for both
\* routes and every other field equal to the SearchCreate passed in, and the
\* SearchCreate passed in keeps its fields and its route geometries.
C23_StoredWithoutGeometry ==
    Returned_from("create_search") =>
        /\ Cardinality(DocumentsOf(call.response)) = 1
        /\ \A i \in DocumentsOf(call.response) :
              /\ searches[i].user_id = call.user_id
              /\ searches[i].shortest_route.geometry = << >>
              /\ searches[i].efficient_route.geometry = << >>
              /\ \A f \in RouteFields :
                    /\ searches[i].shortest_route[f] = call.search.shortest_route[f]
                    /\ searches[i].efficient_route[f] = call.search.efficient_route[f]
              /\ \A f \in {"origin_name", "origin_coordinates", "destination_name",
                           "destination_coordinates", "weight_kg", "mode_comparison"} :
                    searches[i][f] = call.search[f]
        /\ call.search_after = call.search
        /\ call.search_after.shortest_route.geometry # << >>
        /\ call.search_after.efficient_route.geometry # << >>

\* A second record is written, for a search with a mode comparison.
C23_Witness ==
    /\ Returned_from("create_search")
    /\ Len(searches) = 2
    /\ call.search.mode_comparison # << >>
    /\ call.search.shortest_route.geometry # << >>

\* The records of a collection created for a user, and those of the others.
RecordsOf(collection, user_id) == SelectSeq(collection, LAMBDA doc : doc.user_id = user_id)

RecordsOfOthers(collection, user_id) == SelectSeq(collection, LAMBDA doc : doc.user_id # user_id)

\* Positions of the records of the other users that carry a search id.
OthersWithId(search_id, user_id) == {i \in DOMAIN searches : searches[i]._id = ObjectId(search_id).value /\ searches[i].user_id # user_id}

\* What a listing for a user counts and returns is that user's.
ListingIsOwn ==
    Returned_from("get_user_searches") =>
        /\ ~call.modified => call.total <= Len(RecordsOf(searches, call.user_id))
        /\ call.phase = "returned" =>
              \A k \in DOMAIN call.response.items :
                  /\ DocumentsOf(call.response.items[k]) # {}
                  /\ \A i \in DocumentsOf(call.response.items[k]) :
                         searches[i].user_id = call.user_id

\* What one call for a user does to the store and returns.
CallIsOwn ==
    (~Pending /\ call' # None /\ (call' # call \/ searches' # searches)) =>
        /\ RecordsOfOthers(searches', call'.user_id) = RecordsOfOthers(searches, call'.user_id)
        /\ call'.op = "delete_all_user_searches" =>
              /\ RecordsOf(searches', call'.user_id) = << >>
              /\ call'.response = Len(RecordsOf(searches, call'.user_id))
        /\ call'.op \in {"get_search_by_id", "delete_search"} =>
              /\ OthersWithId(call'.search_id, call'.user_id) # {} =>
                     call'.response.raised = "SearchNotFoundError"
              /\ call'.response.raised # "no" => searches' = searches
        /\ call'.op = "get_search_by_id" =>
              /\ searches' = searches
              /\ call'.response.raised = "no" =>
                     \A i \in DocumentsOf(call'.response.value) :
                         searches[i].user_id = call'.user_id
        /\ (call'.op = "delete_search" /\ call'.response.raised = "no") =>
              \E i \in DOMAIN searches :
                  /\ searches[i]._id = ObjectId(call'.search_id).value
                  /\ searches[i].user_id = call'.user_id
                  /\ searches' = Remove(searches, i)

\* C24: an operation performed for user u never returns, counts or removes a
\* record created for another user: get_search_by_id and delete_search on
\* another user's record id fail with SearchNotFoundError and leave the
\* store unchanged, and delete_all_user_searches(u) removes exactly u's
\* records and returns their number.
C24_UserIsolation == []ListingIsOwn /\ [][CallIsOwn]_vars

\* delete_search was refused on the id of a record of the other user, which
\* is still in the store next to a record of the caller.
C24_Witness ==
    /\ Returned_from("delete_search")
    /\ call.response.raised = "SearchNotFoundError"
    /\ OthersWithId(call.search_id, call.user_id) # {}
    /\ RecordsOf(searches, call.user_id) # << >>

\* A listing has returned and the history of its user was not modified
\* between its two queries.
Listed_unmodified == Returned_from("get_user_searches") /\ call.phase = "returned" /\ ~call.modified

\* A route of the record was resolved to the mode.
HasMode(record, mode) == record.shortest_route.transport_mode = mode \/ record.efficient_route.transport_mode = mode

\* C25: GET /searches with a transport_mode filter returns only records of
\* the user whose resolved route mode equals that mode, and the pagination
\* total counts only those records.
C25_ModeFilterApplied ==
    (Listed_unmodified /\ call.transport_mode # None) =>
        /\ \A k \in DOMAIN call.response.items :
               HasMode(call.response.items[k], call.transport_mode.value)
        /\ call.response.pagination.total =
               Len(SelectSeq(RecordsOf(searches, call.user_id),
                             LAMBDA doc : HasMode(doc, call.transport_mode.value)))

\* C26: POST /searches computes the routes and saves the search: the
\* history of the user has exactly one more record, which holds the
\* computed routes, and the response carries the same routes.
C26_SearchComputedAndSaved ==
    Returned_from("POST /searches") =>
        /\ call.response.raised = "no"
        /\ \E i \in DOMAIN searches :
              /\ searches[i].user_id = call.user_id
              /\ searches[i].origin_name = call.origin_name
              /\ searches[i].destination_name = call.destination_name

\* ceil(total / page_size): the least number of pages that hold total items.
Ceil(total, page_size) == CHOOSE n \in 0..total : n * page_size >= total /\ (n - 1) * page_size < total

\* The items at positions first .. last (counted from 0) of an ordering of
\* the matching records, as the service returns them.
PageOf(ordering, first, last) == [k \in 1..(last - first + 1) |-> deserialize_search(project(searches[ordering[first + k]]))]

\* C30: for a get_user_searches call during which the history of the user
\* is not modified, total is the number of the user's records matching the
\* filters, total_pages = max(1, ceil(total / page_size)), has_prev iff
\* page > 1, has_next iff page < total_pages, the items are the records at
\* positions (page-1)*page_size .. page*page_size - 1 of the matching
\* records ordered newest first (none when page > total_pages), and
\* has_next implies that the next page is not empty.
C30_Pagination ==
    Listed_unmodified =>
        LET pagination == call.response.pagination
            total == Cardinality(Selected(call.query))
            first == (call.page - 1) * call.page_size
            last == IF call.page * call.page_size < total
                    THEN call.page * call.page_size - 1 ELSE total - 1
        IN  /\ pagination.total = total
            /\ pagination.page = call.page /\ pagination.page_size = call.page_size
            /\ pagination.total_pages =
                   (IF Ceil(total, call.page_size) > 1 THEN Ceil(total, call.page_size) ELSE 1)
            /\ pagination.has_prev <=> call.page > 1
            /\ pagination.has_next <=> call.page < pagination.total_pages
            /\ \E ordering \in sorted_cursors(call.query) :
                   call.response.items = PageOf(ordering, first, last)
            /\ call.page > pagination.total_pages => call.response.items = << >>
            /\ pagination.has_next => call.page * call.page_size < total

\* A first page that has a next page, and of a history of two records.
C30_Witness ==
    /\ Listed_unmodified
    /\ call.response.pagination.has_next
    /\ Len(call.response.items) = 1
    /\ Cardinality(Selected(call.query)) = 2

(***************************************************************************)
(* AuthService.register_user, called by concurrent requests.  Each request *)
(* is a task; a task gives way to the others at its two awaits, find_one   *)
(* and insert_one.                                                         *)
(***************************************************************************)

\* Concurrent register requests.
MaxTasks == 3

Emails == {"a@example.com", "b@example.com"}

\* The fields create_access_token reads from settings.
JwtFields == {"jwt_access_token_expire_minutes", "jwt_secret_key", "jwt_algorithm"}

\* core/config.py declares none of the jwt fields; a Settings class that
\* declares them is the other value.
AuthSettingsValues ==
    {[fields |-> {}, mapbox_access_token |-> ""],
     [fields |-> JwtFields, mapbox_access_token |-> ""]}

\* core.security.create_access_token
create_access_token(cfg, data) ==
    IF ~(JwtFields \subseteq cfg.fields)
    THEN [raised |-> "AttributeError", value |-> None]
    ELSE [raised |-> "no", value |-> [sub |-> data.sub, email |-> data.email]]

\* collection.find_one({"email": email})
find_one_email(email) == {i \in DOMAIN users : users[i].email = email}

\* collection.insert_one(user_doc) under the unique index on email.
insert_one(user_doc) ==
    IF find_one_email(user_doc.email) # {}
    THEN [raised |-> "DuplicateKeyError", inserted_id |-> None, collection |-> users]
    ELSE [raised |-> "no", inserted_id |-> Some(Len(users) + 1),
          collection |-> Append(users, WithId(user_doc, [oid |-> Len(users) + 1]))]

NoTask == [pc |-> "idle", email |-> "", inserted_id |-> None, response |-> None]

AuthInit ==
    /\ settings \in AuthSettingsValues
    /\ RouteServiceIdle
    /\ known_airports = KNOWN_AIRPORTS
    /\ known_ports = KNOWN_PORTS
    /\ average_speeds = AVERAGE_SPEEDS
    /\ emission_factors = EmissionFactors
    /\ call = None /\ searches = << >> /\ object_ids = 0 /\ clock = 0
    /\ users = << >>
    /\ tasks = [t \in 1..MaxTasks |-> NoTask]

\* The endpoint register calls register_user, which awaits find_one.
Register(t) ==
    /\ tasks[t].pc = "idle"
    /\ \E email \in Emails :
          tasks' = [tasks EXCEPT ![t] = [NoTask EXCEPT !.pc = "find_one", !.email = email]]
    /\ UNCHANGED <<route_vars, shared, call, searches, object_ids, clock, users>>

\* find_one returns: the existence check, then the await of insert_one.
FindOne(t) ==
    /\ tasks[t].pc = "find_one"
    /\ tasks' = [tasks EXCEPT ![t] =
                    IF find_one_email(tasks[t].email) # {}
                    THEN [@ EXCEPT !.pc = "done",
                                   !.response = [raised |-> "UserAlreadyExistsError"]]
                    ELSE [@ EXCEPT !.pc = "insert_one"]]
    /\ UNCHANGED <<route_vars, shared, call, searches, object_ids, clock, users>>

\* insert_one returns or raises; after it the token is created and the
\* Token returned, without another await.
InsertOne(t) ==
    /\ tasks[t].pc = "insert_one"
    /\ LET inserted == insert_one([email |-> tasks[t].email, is_active |-> TRUE])
           token == create_access_token(settings, [sub |-> inserted.inserted_id,
                                                   email |-> tasks[t].email])
       IN  /\ users' = inserted.collection
           /\ tasks' = [tasks EXCEPT ![t] =
                  [@ EXCEPT !.pc = "done",
                            !.inserted_id = inserted.inserted_id,
                            !.response =
                                IF inserted.raised # "no"
                                THEN [raised |-> inserted.raised]
                                ELSE IF token.raised # "no"
                                THEN [raised |-> token.raised]
                                ELSE [raised |-> "no", access_token |-> token.value]]]
    /\ UNCHANGED <<route_vars, shared, call, searches, object_ids, clock>>

AuthNext == \E t \in 1..MaxTasks : Register(t) \/ FindOne(t) \/ InsertOne(t)

AuthSpec == AuthInit /\ [][AuthNext]_vars

\* C29: under any interleaving of concurrent register_user calls at most
\* one user document exists per email, and every call that did not create
\* the user of its email fails with UserAlreadyExistsError and issues no
\* token.
C29_RegisterExclusive ==
    /\ \A i, j \in DOMAIN users : users[i].email = users[j].email => i = j
    /\ \A t \in DOMAIN tasks :
          (tasks[t].pc = "done" /\ tasks[t].inserted_id = None) =>
              tasks[t].response = [raised |-> "UserAlreadyExistsError"]

====
